---- MODULE Spec2Model ----
(***************************************************************************)
(* The Intcode simulator of src/src/shared/intcode.rs and the drivers that *)
(* wire several simulators together through mpsc channels.                 *)
(*                                                                         *)
(* Memory is a TLA+ sequence; the cell the source calls mem[a] is mem[a+1] *)
(* here (MemAt).  An Option is a sequence of length at most one.           *)
(***************************************************************************)
EXTENDS Integers, Sequences, FiniteSets, TLC

VARIABLES
    sims,     \* simulator id -> Simulator (state, mem, pc, relative_base, io)
    chan,     \* channel id -> mpsc channel (queue, history, live handles)
    call,     \* simulator id -> where the caller of run() stands: "idle" | "run"
    result,   \* simulator id -> what the last run()/step() call returned
    driver    \* the driver loop of a multi-simulator scenario

vars == <<sims, chan, call, result, driver>>

---------------------------------------------------------------------------
(* Bounds of the model *)

MaxVal == 22222      \* magnitude of a memory cell / channel value explored
MaxMem == 18         \* memory length explored
MaxOut == 2          \* values ever sent on one channel
MaxSends == 2        \* values the driver sends on the input channel
MaxPokes == 1        \* pokes per loaded program
UsizeModulus == 1048576  \* stands for 2^64: where a negative isize lands as usize
MaxText == 4         \* characters of a program text handed to from_string
MaxRuns == 3         \* calls of run() on one copy in the timing model

---------------------------------------------------------------------------
(* Option, Result *)

None == <<>>
Some(x) == <<x>>
IsSome(o) == Len(o) = 1
Unwrap(o) == o[1]

Ok(v) == [ok |-> TRUE, val |-> v, err |-> "Ok"]
Err(e) == [ok |-> FALSE, val |-> 0, err |-> e]

\* mutant of %: the remainder is never negative
RustRem_Euclid(a, n) == a % n

\* isize % n of Rust: the remainder takes the sign of the dividend
RustRem(a, n) == IF a >= 0 THEN a % n ELSE -((-a) % n)

\* `as usize` of an isize
AsUsize(v) == IF v >= 0 THEN v ELSE UsizeModulus + v

RECURSIVE Pow10(_)
Pow10(n) == IF n = 0 THEN 1 ELSE 10 * Pow10(n - 1)

---------------------------------------------------------------------------
(* mpsc channel: an unbounded FIFO with counted Sender handles *)

NewChannel == [q |-> <<>>, sent |-> <<>>, senders |-> 1, receiver |-> TRUE]

\* mutant of send: the value goes to the front of the queue
ChanSend_Front(c, v) ==
    IF c.receiver
    THEN Ok([c EXCEPT !.q = <<v>> \o @, !.sent = Append(@, v)])
    ELSE Err("ChannelClosed")

\* Sender::send
ChanSend(c, v) ==
    IF c.receiver
    THEN Ok([c EXCEPT !.q = Append(@, v), !.sent = Append(@, v)])
    ELSE Err("ChannelClosed")

\* mutant of try_recv: a channel without Senders reads as Empty
ChanTryRecv_ClosedIsEmpty(c) ==
    IF c.q # <<>> THEN Ok(Some(Head(c.q))) ELSE Ok(None)

\* Receiver::try_recv: Ok(Some(v)), Ok(None) for Empty, Err for Disconnected
ChanTryRecv(c) ==
    IF c.q # <<>> THEN Ok(Some(Head(c.q)))
    ELSE IF c.senders > 0 THEN Ok(None)
    ELSE Err("ChannelClosed")

\* Receiver::recv: as try_recv, but Empty with a live sender blocks the thread
ChanRecv(c) ==
    IF c.q # <<>> THEN Ok(Some(Head(c.q)))
    ELSE IF c.senders > 0 THEN Err("Blocked")
    ELSE Err("ChannelClosed")

\* the value a successful recv / try_recv returned leaves the queue
ChanPop(c) == [c EXCEPT !.q = Tail(@)]

---------------------------------------------------------------------------
(* Parameter, ParameterMode, Op *)

Address(a) == [kind |-> "Address", v |-> a]
Value(v) == [kind |-> "Value", v |-> v]

\* mutant of to_address: a negative address is cast like `as usize`
to_address_Wraps(address) == Ok(Address(AsUsize(address)))

\* Parameter::to_address
to_address(address) ==
    IF address < 0 THEN Err("InvalidAddress") ELSE Ok(Address(address))

\* mutant of parameter_mode: a digit that is no mode is taken as Position
parameter_mode_Lenient(op, param) ==
    LET digit == (AsUsize(op) \div (100 * Pow10(param))) % 10
    IN  CASE digit = 1 -> Ok("Immediate")
          [] digit = 2 -> Ok("Relative")
          [] OTHER -> Ok("Position")

\* mutant of parameter_mode: the digit of operand 0 serves every operand
parameter_mode_First(op, param) ==
    LET digit == (AsUsize(op) \div 100) % 10
    IN  CASE digit = 0 -> Ok("Position")
          [] digit = 1 -> Ok("Immediate")
          [] digit = 2 -> Ok("Relative")
          [] OTHER -> Err("InvalidParameterMode")

\* Simulator::parameter_mode
parameter_mode(op, param) ==
    LET digit == (AsUsize(op) \div (100 * Pow10(param))) % 10
    IN  CASE digit = 0 -> Ok("Position")
          [] digit = 1 -> Ok("Immediate")
          [] digit = 2 -> Ok("Relative")
          [] OTHER -> Err("InvalidParameterMode")

MemAt(mem, a) == mem[a + 1]

\* Op::size
OpSize(name) ==
    CASE name \in {"Add", "Multiply", "LessThan", "Equal"} -> 4
      [] name \in {"JumpIfTrue", "JumpIfFalse"} -> 3
      [] name \in {"Input", "Output", "AdjustRelativeBase"} -> 2
      [] name = "Halt" -> 1

\* the match of get_next_op: opcode -> variant (None for the `_` arm)
OpName(opcode) ==
    CASE opcode = 1 -> Some("Add")
      [] opcode = 2 -> Some("Multiply")
      [] opcode = 3 -> Some("Input")
      [] opcode = 4 -> Some("Output")
      [] opcode = 5 -> Some("JumpIfTrue")
      [] opcode = 6 -> Some("JumpIfFalse")
      [] opcode = 7 -> Some("LessThan")
      [] opcode = 8 -> Some("Equal")
      [] opcode = 9 -> Some("AdjustRelativeBase")
      [] opcode = 99 -> Some("Halt")
      [] OTHER -> None

---------------------------------------------------------------------------
(* Simulator *)

\* SimulatorIO::default
SimulatorIO_default ==
    [input_reader |-> None, output_sender |-> None, blocking_input |-> FALSE]

\* Simulator::new
Simulator_new ==
    [state |-> "Halted", mem |-> <<>>, pc |-> 0, relative_base |-> 0,
     io |-> SimulatorIO_default]

\* mutant of load_program: the loaded simulator is left Running
load_program_Running(s, program) ==
    [s EXCEPT !.state = "Running", !.mem = program, !.pc = 0,
              !.relative_base = 0]

\* mutant of load_program: the relative base is left as it was
load_program_KeepsBase(s, program) ==
    [s EXCEPT !.state = "Halted", !.mem = program, !.pc = 0]

\* mutant of load_program: the I/O handlers are reset as well
load_program_ResetsIO(s, program) ==
    [s EXCEPT !.state = "Halted", !.mem = program, !.pc = 0,
              !.relative_base = 0, !.io = SimulatorIO_default]

\* Simulator::load_program
load_program(s, program) ==
    [s EXCEPT !.state = "Halted", !.mem = program, !.pc = 0,
              !.relative_base = 0]

\* Simulator::with_program
with_program(program) == load_program(Simulator_new, program)

\* mutant of is_running: a suspended simulator does not count as running
is_running_OnlyRunning(s) == s.state = "Running"

\* Simulator::is_running
is_running(s) == s.state # "Halted"

\* Simulator::set_blocking_input
set_blocking_input(s, blocking) == [s EXCEPT !.io.blocking_input = blocking]

\* Simulator::connect_input, Simulator::connect_output
connect_input(s, input) == [s EXCEPT !.io.input_reader = Some(input)]
connect_output(s, output) == [s EXCEPT !.io.output_sender = Some(output)]

\* Simulator::get_param.  Indexing mem past its end panics.
get_param(s, i) ==
    LET mode == parameter_mode(MemAt(s.mem, s.pc), i)
    IN  IF ~mode.ok THEN mode
        ELSE IF s.pc + i + 1 >= Len(s.mem) THEN Err("Panic")
        ELSE LET raw_value == MemAt(s.mem, s.pc + i + 1)
             IN  CASE mode.val = "Position" -> to_address(raw_value)
                   [] mode.val = "Immediate" -> Ok(Value(raw_value))
                   [] mode.val = "Relative" ->
                        to_address(s.relative_base + raw_value)

\* the parameters of an instruction, fetched in order; the first failure wins
RECURSIVE GetParams(_, _, _)
GetParams(s, i, n) ==
    IF i = n THEN Ok(<<>>)
    ELSE LET p == get_param(s, i)
         IN  IF ~p.ok THEN p
             ELSE LET rest == GetParams(s, i + 1, n)
                  IN  IF ~rest.ok THEN rest ELSE Ok(<<p.val>> \o rest.val)

\* Simulator::get_next_op: Ok([name, p]) with p the resolved parameters
get_next_op(s) ==
    IF s.pc >= Len(s.mem) THEN Err("Panic")
    ELSE LET opcode == RustRem(MemAt(s.mem, s.pc), 100)
             name == OpName(opcode)
         IN  IF ~IsSome(name) THEN Err("InvalidOpcode")
             ELSE LET ps == GetParams(s, 0, OpSize(Unwrap(name)) - 1)
                  IN  IF ~ps.ok THEN ps
                      ELSE Ok([name |-> Unwrap(name), p |-> ps.val])

\* mutant of load: an address beyond the end wraps round to the start
load_Wraps(s, param) ==
    IF param.kind = "Address"
    THEN IF s.mem = <<>> THEN 0 ELSE MemAt(s.mem, param.v % Len(s.mem))
    ELSE param.v

\* Simulator::load
load(s, param) ==
    IF param.kind = "Address"
    THEN IF param.v >= Len(s.mem) THEN 0 ELSE MemAt(s.mem, param.v)
    ELSE param.v

\* mutant of Resize: one cell more than asked for is appended
Resize_Extra(mem, n) == [k \in 1..(n + 1) |-> IF k <= Len(mem) THEN mem[k] ELSE 0]

\* Vec::resize_with(n, Default::default) when n > len
Resize(mem, n) == [k \in 1..n |-> IF k <= Len(mem) THEN mem[k] ELSE 0]

\* mutant of store: resize_with is called whatever the address, so that a
\* write inside memory cuts memory off behind the written cell
store_Truncates(s, target, value) ==
    IF target.kind = "Address"
    THEN Ok([s EXCEPT !.mem = [Resize(s.mem, target.v + 1)
                                  EXCEPT ![target.v + 1] = value]])
    ELSE Err("InvalidDestination")

\* mutant of store: a write beyond the end of memory is dropped
store_NoGrow(s, target, value) ==
    IF target.kind = "Address"
    THEN IF target.v >= Len(s.mem) THEN Ok(s)
         ELSE Ok([s EXCEPT !.mem[target.v + 1] = value])
    ELSE Err("InvalidDestination")

\* Simulator::store: Ok(the simulator after the write) or the error
store(s, target, value) ==
    IF target.kind = "Address"
    THEN LET grown == IF target.v >= Len(s.mem)
                      THEN Resize(s.mem, target.v + 1) ELSE s.mem
         IN  Ok([s EXCEPT !.mem = [grown EXCEPT ![target.v + 1] = value]])
    ELSE Err("InvalidDestination")


\* mutant of read_input: the value is read but stays in the queue
read_input_Peek(io, ch) ==
    IF ~IsSome(io.input_reader)
    THEN [r |-> Err("MissingChannel"), ch |-> ch]
    ELSE [r |-> IF io.blocking_input
                THEN ChanRecv(ch[Unwrap(io.input_reader)])
                ELSE ChanTryRecv(ch[Unwrap(io.input_reader)]),
          ch |-> ch]

\* mutant of read_input: the newest queued value is taken, not the oldest
read_input_Newest(io, ch) ==
    IF ~IsSome(io.input_reader)
    THEN [r |-> Err("MissingChannel"), ch |-> ch]
    ELSE LET c == Unwrap(io.input_reader)
             got == IF io.blocking_input
                    THEN ChanRecv(ch[c]) ELSE ChanTryRecv(ch[c])
         IN  IF got.ok /\ IsSome(got.val)
             THEN [r |-> Ok(Some(ch[c].q[Len(ch[c].q)])),
                   ch |-> [ch EXCEPT ![c].q = SubSeq(@, 1, Len(@) - 1)]]
             ELSE [r |-> got, ch |-> ch]

\* mutant of read_input: try_recv whatever blocking_input says
read_input_NeverBlocks(io, ch) ==
    IF ~IsSome(io.input_reader)
    THEN [r |-> Err("MissingChannel"), ch |-> ch]
    ELSE LET c == Unwrap(io.input_reader)
             got == ChanTryRecv(ch[c])
         IN  IF got.ok /\ IsSome(got.val)
             THEN [r |-> got, ch |-> [ch EXCEPT ![c] = ChanPop(@)]]
             ELSE [r |-> got, ch |-> ch]

\* SimulatorIO::read_input: [r |-> Ok(Some(v)) | Ok(None) | Err(e), ch |-> the
\* channels afterwards].  Err("Blocked") is recv() still waiting.
read_input(io, ch) ==
    IF ~IsSome(io.input_reader)
    THEN [r |-> Err("MissingChannel"), ch |-> ch]
    ELSE LET c == Unwrap(io.input_reader)
             got == IF io.blocking_input
                    THEN ChanRecv(ch[c]) ELSE ChanTryRecv(ch[c])
         IN  IF got.ok /\ IsSome(got.val)
             THEN [r |-> got, ch |-> [ch EXCEPT ![c] = ChanPop(@)]]
             ELSE [r |-> got, ch |-> ch]

\* mutant of send_output: without a channel the value is silently dropped
send_output_Unconnected(io, ch, value) ==
    IF ~IsSome(io.output_sender)
    THEN Ok(ch)
    ELSE LET c == Unwrap(io.output_sender)
             snd == ChanSend(ch[c], value)
         IN  IF snd.ok THEN Ok([ch EXCEPT ![c] = snd.val]) ELSE snd

\* mutant of send_output: the value is not put on the channel
send_output_Lost(io, ch, value) ==
    IF ~IsSome(io.output_sender) THEN Err("MissingChannel") ELSE Ok(ch)

\* SimulatorIO::send_output: Ok(the channels afterwards) or the error
send_output(io, ch, value) ==
    IF ~IsSome(io.output_sender)
    THEN Err("MissingChannel")
    ELSE LET c == Unwrap(io.output_sender)
             snd == ChanSend(ch[c], value)
         IN  IF snd.ok THEN Ok([ch EXCEPT ![c] = snd.val]) ELSE snd

StepOut(res, s, ch) == [res |-> res, sim |-> s, ch |-> ch]

\* `if advance { self.pc += op.size(); }`
Advance(s, name) == [s EXCEPT !.pc = @ + OpSize(name)]

\* the arms of step that end in self.store(dest, value)?
StoreArm(s, ch, name, dest, value) ==
    LET st == store(s, dest, value)
    IN  IF st.ok THEN StepOut("Ok", Advance(st.val, name), ch)
        ELSE StepOut(st.err, s, ch)

\* mutant of the Input arm: a suspended Input still advances the pc
InputArm_Advances(s, ch, dest) ==
    LET rd == read_input(s.io, ch)
    IN  IF ~rd.r.ok THEN StepOut(rd.r.err, s, rd.ch)
        ELSE IF IsSome(rd.r.val)
        THEN StoreArm(s, rd.ch, "Input", dest, Unwrap(rd.r.val))
        ELSE StepOut("Ok", Advance([s EXCEPT !.state = "Wait"], "Input"),
                     rd.ch)

\* Op::Input arm of step
InputArm(s, ch, dest) ==
    LET rd == read_input(s.io, ch)
    IN  IF ~rd.r.ok THEN StepOut(rd.r.err, s, rd.ch)
        ELSE IF IsSome(rd.r.val)
        THEN StoreArm(s, rd.ch, "Input", dest, Unwrap(rd.r.val))
        ELSE StepOut("Ok", [s EXCEPT !.state = "Wait"], rd.ch)

\* mutant of the Output arm: it yields to the caller after sending
OutputArm_Yields(s, ch, value) ==
    LET snd == send_output(s.io, ch, load(s, value))
    IN  IF snd.ok
        THEN StepOut("Ok", Advance([s EXCEPT !.state = "Wait"], "Output"),
                     snd.val)
        ELSE StepOut(snd.err, s, ch)

\* mutant of the Output arm: a failed send still moves the pc on
OutputArm_SkipsOnError(s, ch, value) ==
    LET snd == send_output(s.io, ch, load(s, value))
    IN  IF snd.ok THEN StepOut("Ok", Advance(s, "Output"), snd.val)
        ELSE StepOut(snd.err, Advance(s, "Output"), ch)

\* Op::Output arm of step
OutputArm(s, ch, value) ==
    LET snd == send_output(s.io, ch, load(s, value))
    IN  IF snd.ok THEN StepOut("Ok", Advance(s, "Output"), snd.val)
        ELSE StepOut(snd.err, s, ch)

\* Op::JumpIfTrue / Op::JumpIfFalse arms of step
JumpArm(s, ch, name, taken, dest) ==
    IF taken
    THEN StepOut("Ok", [s EXCEPT !.pc = AsUsize(load(s, dest))], ch)
    ELSE StepOut("Ok", Advance(s, name), ch)

\* mutant of the AdjustRelativeBase arm: the operand replaces the base
AdjustArm_Sets(s, ch, offset) ==
    LET new_base == load(s, offset)
    IN  IF new_base < 0 THEN StepOut("BaseOverflow", s, ch)
        ELSE StepOut("Ok",
                 Advance([s EXCEPT !.relative_base = new_base],
                         "AdjustRelativeBase"), ch)

\* Op::AdjustRelativeBase arm of step
AdjustArm(s, ch, offset) ==
    LET new_base == s.relative_base + load(s, offset)
    IN  IF new_base < 0 THEN StepOut("BaseOverflow", s, ch)
        ELSE StepOut("Ok",
                 Advance([s EXCEPT !.relative_base = new_base],
                         "AdjustRelativeBase"), ch)

\* mutant of the Halt arm: the state is not set to Halted
HaltArm_KeepsRunning(s, ch) == StepOut("Ok", Advance(s, "Halt"), ch)

\* Op::Halt arm of step
HaltArm(s, ch) == StepOut("Ok", Advance([s EXCEPT !.state = "Halted"], "Halt"), ch)

\* mutant of BoolToIsize: true becomes 0 and false 1
BoolToIsize_Inverted(b) == IF b THEN 0 ELSE 1

\* `(...) as isize` of a bool
BoolToIsize(b) == IF b THEN 1 ELSE 0

\* Simulator::step: [res |-> "Ok" | error | "Panic" | "Blocked",
\*                   sim |-> the simulator afterwards, ch |-> the channels]
step(s, ch) ==
    LET next == get_next_op(s)
    IN  IF ~next.ok THEN StepOut(next.err, s, ch)
        ELSE LET op == next.val.name
                 p == next.val.p
             IN  CASE op = "Add" ->
                        StoreArm(s, ch, op, p[3], load(s, p[1]) + load(s, p[2]))
                   [] op = "Multiply" ->
                        StoreArm(s, ch, op, p[3], load(s, p[1]) * load(s, p[2]))
                   [] op = "Input" -> InputArm(s, ch, p[1])
                   [] op = "Output" -> OutputArm(s, ch, p[1])
                   [] op = "JumpIfTrue" ->
                        JumpArm(s, ch, op, load(s, p[1]) # 0, p[2])
                   [] op = "JumpIfFalse" ->
                        JumpArm(s, ch, op, load(s, p[1]) = 0, p[2])
                   [] op = "LessThan" ->
                        StoreArm(s, ch, op, p[3],
                                 BoolToIsize(load(s, p[1]) < load(s, p[2])))
                   [] op = "Equal" ->
                        StoreArm(s, ch, op, p[3],
                                 BoolToIsize(load(s, p[1]) = load(s, p[2])))
                   [] op = "AdjustRelativeBase" -> AdjustArm(s, ch, p[1])
                   [] op = "Halt" -> HaltArm(s, ch)

\* Simulator::peek
peek(s, address) == load(s, Address(address))

\* Simulator::poke (the Result of store is dropped by .ok())
poke(s, address, value) ==
    LET st == store(s, Address(address), value)
    IN  IF st.ok THEN st.val ELSE s

\* mutant of the loop of run: the break on Wait is missing
RunLeaves_NoBreak(s) == ~is_running(s)

\* mutant of the loop of run: it returns after every step
RunLeaves_Always(s) == TRUE

\* the loop of Simulator::run after one step returned Ok: leave on Wait
\* (break) or when is_running() is false, otherwise step again
RunLeaves(s) == s.state = "Wait" \/ ~is_running(s)

---------------------------------------------------------------------------
(* Programs and inputs explored *)

ProgHalt == <<99>>                                   \* test_empty_program
ProgInput == <<3, 0, 99>>                            \* test_input
ProgOutput == <<4, 0, 99>>                           \* test_output
ProgDay2 == <<1, 9, 10, 3, 2, 3, 11, 0, 99, 30, 40, 50>>  \* test_day2_examples
ProgBadDest == <<11101, 1, 1, 1, 99>>   \* test_storing_to_immediate_param_fails
ProgAddOne == <<3, 9, 1001, 9, 1, 9, 4, 9, 99, 0>>   \* read, add 1, output, halt
ProgTwoInputs == <<3, 9, 3, 10, 4, 9, 4, 10, 99, 0, 0>>  \* phase, then signal
ProgEcho == <<3, 7, 4, 7, 1105, 1, 0, 0>>            \* read, output, repeat
ProgInputImm == <<103, 0, 99>>          \* an Input whose operand is Immediate
ProgRelative == <<109, 7, 203, 0, 204, 0, 99>>  \* base 7; read to, output from base+0
ProgNegAddr == <<1101, 3, 4, 7, 1, -1, 0, 0, 99>>   \* 3+4 -> [7], then address -1
ProgBadMode == <<109, 1, 304, 0, 99>>               \* base 1, then mode digit 3
ProgBaseOverflow == <<109, 2, 109, -3, 99>>         \* base 2, then base 2-3

Programs ==
    {ProgHalt, ProgInput, ProgOutput, ProgDay2, ProgBadDest, ProgAddOne,
     ProgTwoInputs, ProgEcho, ProgInputImm, ProgRelative, ProgNegAddr,
     ProgBadMode, ProgBaseOverflow}

InputValues == {5, 8}
PokeAddrs == {1, 12}
PokeValues == {2}

---------------------------------------------------------------------------
(* One simulator and the thread that owns it; the Sender of its input      *)
(* channel may live on another thread.                                     *)

NoChannel == [q |-> <<>>, sent |-> <<>>, senders |-> 0, receiver |-> FALSE]

InCh(i) == 2 * i + 1     \* the channel create_input_channel makes for simulator i
OutCh(i) == 2 * i + 2    \* the channel create_output_channel makes for it

\* the last call on a simulator: which operation, what it returned ("Pending"
\* while run() is still looping) and the state it found the simulator in
Returned(of, res, from) == [of |-> of, res |-> res, from |-> from]
NotCalled == Returned("none", "None", "Halted")

Panicked(i) == result[i].res = "Panic"
Idle(i) == call[i] = "idle" /\ ~Panicked(i)

\* what the model explores of the unbounded cells, tape and channels
WithinBounds(r) ==
    /\ Len(r.sim.mem) <= MaxMem
    /\ \A k \in 1..Len(r.sim.mem) : r.sim.mem[k] \in -MaxVal..MaxVal
    /\ r.sim.relative_base <= MaxVal
    /\ \A c \in DOMAIN r.ch :
          Len(r.ch[c].sent) > Len(chan[c].sent) => Len(r.ch[c].sent) <= MaxOut

\* One pass through the loop of Simulator::run on simulator i, which stands
\* as s: step()?, then break on Wait, then the while condition.
RunLoop(i, s, from) ==
    \E r \in {step(s, chan)} :
        /\ r.res # "Blocked"
        /\ WithinBounds(r)
        /\ sims' = [sims EXCEPT ![i] = r.sim]
        /\ chan' = r.ch
        /\ IF r.res # "Ok"
           THEN /\ call' = [call EXCEPT ![i] = "idle"]
                /\ result' = [result EXCEPT ![i] = Returned("run", r.res, from)]
           ELSE IF RunLeaves(r.sim)
           THEN /\ call' = [call EXCEPT ![i] = "idle"]
                /\ result' = [result EXCEPT ![i] = Returned("run", "Ok", from)]
           ELSE /\ call' = [call EXCEPT ![i] = "run"]
                /\ result' = [result EXCEPT ![i] = Returned("run", "Pending", from)]

\* Simulator::run entered: state = Running, then the first pass of the loop
RunEnter(s) == [s EXCEPT !.state = "Running"]

Run(i) ==
    /\ Idle(i)
    /\ RunLoop(i, RunEnter(sims[i]), sims[i].state)
    /\ UNCHANGED driver

\* a later pass of the loop of Simulator::run
RunIter(i) ==
    /\ call[i] = "run"
    /\ RunLoop(i, sims[i], result[i].from)
    /\ UNCHANGED driver

\* a call of the public Simulator::step
Step(i) ==
    /\ Idle(i)
    /\ \E r \in {step(sims[i], chan)} :
          /\ r.res # "Blocked"
          /\ WithinBounds(r)
          /\ sims' = [sims EXCEPT ![i] = r.sim]
          /\ chan' = r.ch
          /\ result' = [result EXCEPT ![i] =
                            Returned("step", r.res, sims[i].state)]
    /\ UNCHANGED <<call, driver>>

\* load_program; a simulator is reloaded from the Program it was first given
LoadProgram(i) ==
    /\ Idle(i)
    /\ \E program \in Programs :
          /\ driver.program \in {None, Some(program)}
          /\ sims' = [sims EXCEPT ![i] = load_program(@, program)]
          /\ driver' = [driver EXCEPT !.pokes = 0, !.program = Some(program)]
    /\ result' = [result EXCEPT ![i] = NotCalled]
    /\ UNCHANGED <<chan, call>>

\* the drivers poke a freshly loaded program, before they run it
Poke(i) ==
    /\ Idle(i)
    /\ result[i].of = "none"
    /\ sims[i].mem # <<>>
    /\ driver.pokes < MaxPokes
    /\ \E address \in PokeAddrs, value \in PokeValues :
          sims' = [sims EXCEPT ![i] = poke(@, address, value)]
    /\ driver' = [driver EXCEPT !.pokes = @ + 1]
    /\ UNCHANGED <<chan, call, result>>

\* Simulator::create_input_channel, called once
CreateInputChannel(i) ==
    /\ Idle(i)
    /\ chan[InCh(i)] = NoChannel
    /\ chan' = [chan EXCEPT ![InCh(i)] = NewChannel]
    /\ sims' = [sims EXCEPT ![i].io.input_reader = Some(InCh(i))]
    /\ UNCHANGED <<call, result, driver>>

\* Simulator::create_output_channel, called once
CreateOutputChannel(i) ==
    /\ Idle(i)
    /\ chan[OutCh(i)] = NoChannel
    /\ chan' = [chan EXCEPT ![OutCh(i)] = NewChannel]
    /\ sims' = [sims EXCEPT ![i].io.output_sender = Some(OutCh(i))]
    /\ UNCHANGED <<call, result, driver>>

SetBlockingInput(i) ==
    /\ Idle(i)
    /\ \E blocking \in BOOLEAN :
          /\ blocking # sims[i].io.blocking_input
          /\ sims' = [sims EXCEPT ![i] = set_blocking_input(@, blocking)]
    /\ UNCHANGED <<chan, call, result, driver>>

\* input.send(v) by whoever holds the Sender of simulator i's input channel
SendInput(i) ==
    /\ chan[InCh(i)].senders > 0
    /\ Len(chan[InCh(i)].sent) < MaxSends
    /\ \E v \in InputValues :
          LET snd == ChanSend(chan[InCh(i)], v)
          IN  /\ snd.ok
              /\ chan' = [chan EXCEPT ![InCh(i)] = snd.val]
    /\ UNCHANGED <<sims, call, result, driver>>

\* the Sender of simulator i's input channel is dropped
DropInputSender(i) ==
    /\ chan[InCh(i)].senders > 0
    /\ chan' = [chan EXCEPT ![InCh(i)].senders = @ - 1]
    /\ UNCHANGED <<sims, call, result, driver>>

\* the Receiver of simulator i's output channel is dropped
DropOutputReceiver(i) ==
    /\ chan[OutCh(i)].receiver
    /\ chan' = [chan EXCEPT ![OutCh(i)].receiver = FALSE]
    /\ UNCHANGED <<sims, call, result, driver>>

Init ==
    /\ sims = [i \in {0} |-> Simulator_new]
    /\ chan = [c \in {InCh(0), OutCh(0)} |-> NoChannel]
    /\ call = [i \in {0} |-> "idle"]
    /\ result = [i \in {0} |-> NotCalled]
    /\ driver = [pokes |-> 0, program |-> None]

Next ==
    \/ LoadProgram(0)
    \/ Poke(0)
    \/ CreateInputChannel(0)
    \/ CreateOutputChannel(0)
    \/ SetBlockingInput(0)
    \/ SendInput(0)
    \/ DropInputSender(0)
    \/ DropOutputReceiver(0)
    \/ Run(0)
    \/ RunIter(0)
    \/ Step(0)

Spec == Init /\ [][Next]_vars

\* The runs of a driver that loads, wires the channels, sends and calls run();
\* the thread inside run() keeps executing its loop.
LiveNext ==
    \/ LoadProgram(0)
    \/ CreateInputChannel(0)
    \/ CreateOutputChannel(0)
    \/ SendInput(0)
    \/ Run(0)
    \/ RunIter(0)

LiveSpec == Init /\ [][LiveNext]_vars /\ WF_vars(RunIter(0))

---------------------------------------------------------------------------
(* Claims about one simulator *)

\* the instruction at the program counter decodes to the variant `name`
NextIs(s, name) ==
    /\ s.pc < Len(s.mem)
    /\ OpName(RustRem(MemAt(s.mem, s.pc), 100)) = Some(name)
    /\ get_next_op(s).ok

\* the resolved operand k (1-based) of the instruction at the program counter
Operand(s, k) == get_next_op(s).val.p[k]

\* the channel connected as the input of s
InputOf(s, ch) == ch[Unwrap(s.io.input_reader)]

\* how many values have been received from channel c so far
Taken(c) == Len(c.sent) - Len(c.q)

\* this step is a call of run() or step(), or a later pass of run()'s loop
Executes(i) == Run(i) \/ RunIter(i) \/ Step(i)

\* C1: once the loop of run() stands at an opcode-99 instruction, run()
\* returns Ok with the state Halted (is_running() false); a run() whose first
\* instruction is opcode 99 returns so at once.
C1_RunHalts ==
    /\ [][(Run(0) /\ NextIs(sims[0], "Halt")) =>
            (/\ call'[0] = "idle"
             /\ result'[0].res = "Ok"
             /\ ~is_running(sims'[0]))]_vars
    /\ (call[0] = "run" /\ NextIs(sims[0], "Halt"))
         ~> (/\ call[0] = "idle"
             /\ result[0].of = "run" /\ result[0].res = "Ok"
             /\ sims[0].state = "Halted" /\ ~is_running(sims[0]))

\* a run() of several instructions has returned Ok on reaching opcode 99
C1_Witness ==
    /\ call[0] = "idle"
    /\ result[0].of = "run" /\ result[0].res = "Ok"
    /\ sims[0].state = "Halted"
    /\ sims[0].pc > 1

\* the simulator has executed opcode 99: its last run() returned Ok, Halted
HasHalted(i) ==
    /\ call[i] = "idle"
    /\ result[i].of = "run" /\ result[i].res = "Ok"
    /\ sims[i].state = "Halted"

\* C2: once a simulator has executed opcode 99, every later run() or step()
\* (that comes back to its caller) leaves the state Halted and changes neither
\* memory, program counter, relative base nor the contents of the output
\* channel.
C2_HaltedIsTerminal ==
    [][(HasHalted(0) /\ (Run(0) \/ Step(0)) /\ result'[0].res # "Panic") =>
         (/\ sims'[0].state = "Halted"
          /\ sims'[0].mem = sims[0].mem
          /\ sims'[0].pc = sims[0].pc
          /\ sims'[0].relative_base = sims[0].relative_base
          /\ chan'[OutCh(0)] = chan[OutCh(0)])]_vars

\* a program has been loaded and neither run() nor step() called since
FreshlyLoaded(i) == driver.program # None /\ result[i] = NotCalled

\* C3 as claimed: right after a load the state is Running, is_running() true
C3_LoadedIsRunning ==
    FreshlyLoaded(0) => (sims[0].state = "Running" /\ is_running(sims[0]))

\* C3 as amended: right after a load and before any run() the state is
\* Halted and is_running() is false; run() sets Running on entry.
C3_LoadedIsHalted ==
    /\ FreshlyLoaded(0) => (sims[0].state = "Halted" /\ ~is_running(sims[0]))
    /\ sims[0].state = "Running" => result[0].of # "none"

C3_Witness == FreshlyLoaded(0) /\ sims[0].mem # <<>> /\ sims[0].pc = 0

\* an Input instruction is next, in non-blocking mode, on a connected, empty
\* channel whose Sender is alive
InputStarved(s, ch) ==
    /\ ~s.io.blocking_input
    /\ IsSome(s.io.input_reader)
    /\ InputOf(s, ch).q = <<>>
    /\ InputOf(s, ch).senders > 0
    /\ NextIs(s, "Input")

\* C4: in non-blocking mode a step at an Input instruction with the channel
\* empty returns Ok, sets the state Wait and leaves pc, memory, relative base
\* and both channels as they were; run() then returns Ok.
C4_SuspendKeepsState ==
    [][(InputStarved(sims[0], chan) /\ Executes(0)) =>
         (/\ result'[0].res = "Ok"
          /\ call'[0] = "idle"
          /\ sims'[0] = [sims[0] EXCEPT !.state = "Wait"]
          /\ chan' = chan)]_vars

\* a run() has suspended at an Input instruction and returned Ok
C4_Witness ==
    /\ InputStarved(sims[0], chan)
    /\ sims[0].state = "Wait"
    /\ call[0] = "idle"
    /\ result[0].of = "run" /\ result[0].res = "Ok"

C6_RunReturnsHaltedOrWaiting ==
    (call[0] = "idle" /\ result[0].of = "run" /\ result[0].res = "Ok")
        => sims[0].state \in {"Halted", "Wait"}

C6_Witness ==
    /\ call[0] = "idle"
    /\ result[0].of = "run" /\ result[0].res = "Ok"
    /\ sims[0].state = "Wait"
    /\ sims[0].pc > 0

\* C9: the k-th Input instruction that obtains a value stores the k-th value
\* sent on the input channel, however many values were queued ahead.
C9_InputsInSendOrder ==
    [][(/\ IsSome(sims[0].io.input_reader)
        /\ result'[0].res \in {"Ok", "Pending"}
        /\ Taken(chan'[InCh(0)]) # Taken(chan[InCh(0)])
        /\ NextIs(sims[0], "Input")
        /\ Executes(0)) =>
         (/\ Taken(chan'[InCh(0)]) = Taken(chan[InCh(0)]) + 1
          /\ peek(sims'[0], Operand(sims[0], 1).v)
               = chan[InCh(0)].sent[Taken(chan'[InCh(0)])])]_vars

\* two values were queued ahead of a run(), which stored them in send order
C9_Witness ==
    /\ driver.program = Some(ProgTwoInputs)
    /\ chan[InCh(0)].sent = <<5, 8>>
    /\ chan[InCh(0)].q = <<>>
    /\ result[0] = Returned("run", "Ok", "Halted")
    /\ peek(sims[0], 9) = 5
    /\ peek(sims[0], 10) = 8

\* C10 as claimed: with blocking_input true the state is never Wait
C10_BlockingNeverWaiting ==
    sims[0].io.blocking_input => sims[0].state # "Wait"

\* C10 as amended: with blocking_input true no run() or step() puts the
\* simulator into Wait, an Input step does not come back while the channel is
\* empty and a Sender is alive, and it comes back Ok only when the channel
\* held a value, which it has taken and stored.
C10_BlockingNeverSuspends ==
    [][sims[0].io.blocking_input =>
         (/\ sims[0].state # "Wait" => sims'[0].state # "Wait"
          /\ sims'[0].state = "Wait" => ~(Run(0) \/ RunIter(0))
          /\ (/\ IsSome(sims[0].io.input_reader)
              /\ InputOf(sims[0], chan).q = <<>>
              /\ InputOf(sims[0], chan).senders > 0
              /\ NextIs(sims[0], "Input")) => ~Executes(0)
          /\ (/\ result'[0].res \in {"Ok", "Pending"}
              /\ NextIs(sims[0], "Input")
              /\ Executes(0)) =>
                (/\ InputOf(sims[0], chan).q # <<>>
                 /\ InputOf(sims[0], chan').q = Tail(InputOf(sims[0], chan).q)
                 /\ peek(sims'[0], Operand(sims[0], 1).v)
                      = Head(InputOf(sims[0], chan).q)))]_vars

\* in blocking mode the first Input of a run() has received its value
C10_Witness ==
    /\ sims[0].io.blocking_input
    /\ driver.program = Some(ProgTwoInputs)
    /\ call[0] = "run"
    /\ sims[0].pc = 2
    /\ Taken(chan[InCh(0)]) = 1
    /\ peek(sims[0], 9) = Head(chan[InCh(0)].sent)

---------------------------------------------------------------------------
(* A ring of simulators, wired output -> input as day07's feedback loop    *)
(* wires its amplifiers.  Two copies of the ring run side by side:         *)
(* simulators 0..count-1 are non-blocking and driven by the loop of        *)
(* run_feedback_loop; simulators count..2*count-1 are blocking, each       *)
(* owned by a thread that calls run() once.                                *)

count == 3

\* read, add 1, output, halt; the cells after the 99 hold an Output and a 99
ProgAddOneTail == <<3, 12, 1001, 12, 1, 12, 4, 12, 99, 4, 12, 99, 0>>

RingPrograms == {ProgAddOne, ProgAddOneTail}
RingSeeds == {5, 98}

Ring(i) == i \div count
Succ(i) == count * Ring(i) + ((i + 1) % count)
CoopIds == 0..(count - 1)
ThreadIds == count..(2 * count - 1)

\* channel(): the Receiver goes to the reading simulator, the Sender to the
\* writing one and a clone of it to the driver, which sends the seed
RingChannel == [NewChannel EXCEPT !.senders = 2]

RingSim(i, program, blocking) ==
    connect_output(
        connect_input(set_blocking_input(with_program(program), blocking),
                      InCh(i)),
        InCh(Succ(i)))

RingInit ==
    \E program \in RingPrograms, at \in CoopIds, v \in RingSeeds :
        /\ sims = [i \in CoopIds \cup ThreadIds |->
                      RingSim(i, program, i \in ThreadIds)]
        /\ chan = [c \in {InCh(i) : i \in CoopIds \cup ThreadIds} |->
                      IF c \in {InCh(at), InCh(count + at)}
                      THEN ChanSend(RingChannel, v).val
                      ELSE RingChannel]
        /\ call = [i \in CoopIds \cup ThreadIds |-> "idle"]
        /\ result = [i \in CoopIds \cup ThreadIds |-> NotCalled]
        /\ driver = [program |-> Some(program), seedAt |-> at, seed |-> v,
                     pos |-> 0, running |-> FALSE, at |-> "call",
                     phase |-> "loop"]

\* `program.run_until_input_needed()?` of the for loop: run() is entered
CoopRun ==
    /\ driver.phase = "loop"
    /\ driver.at = "call"
    /\ Idle(driver.pos)
    /\ RunLoop(driver.pos, RunEnter(sims[driver.pos]), sims[driver.pos].state)
    /\ driver' = [driver EXCEPT !.at = "ret"]

\* run() goes on looping
CoopIter ==
    /\ driver.phase = "loop"
    /\ RunIter(driver.pos)

\* run() has returned: `?`, then `if program.is_running() { running = true }`,
\* the next simulator of the for loop, and at its end `while running`
CoopReturn ==
    /\ driver.phase = "loop"
    /\ driver.at = "ret"
    /\ call[driver.pos] = "idle"
    /\ driver' =
          IF result[driver.pos].res = "Panic"
          THEN [driver EXCEPT !.phase = "panic"]
          ELSE IF result[driver.pos].res # "Ok"
          THEN [driver EXCEPT !.phase = "err"]
          ELSE LET running == driver.running \/ is_running(sims[driver.pos])
               IN  IF driver.pos + 1 < count
                   THEN [driver EXCEPT !.pos = @ + 1, !.running = running,
                                       !.at = "call"]
                   ELSE IF running
                   THEN [driver EXCEPT !.pos = 0, !.running = FALSE,
                                       !.at = "call"]
                   ELSE [driver EXCEPT !.running = FALSE, !.phase = "done"]
    /\ UNCHANGED <<sims, chan, call, result>>

\* the thread of blocking simulator i calls run(), once
ThreadRun(i) ==
    /\ result[i].of = "none"
    /\ Run(i)

ThreadIter(i) == RunIter(i)

\* the driver thread of the cooperative ring
CoopNext ==
    \/ CoopRun
    \/ CoopIter
    \/ CoopReturn

RingNext ==
    \/ CoopNext
    \/ \E i \in ThreadIds : ThreadRun(i)
    \/ \E i \in ThreadIds : ThreadIter(i)

RingSpec == RingInit /\ [][RingNext]_vars

\* the cooperative ring alone; the driver thread keeps executing its loop
RingLiveSpec == RingInit /\ [][CoopNext]_vars /\ WF_vars(CoopNext)

---------------------------------------------------------------------------
(* Claims about the ring *)

\* the ring of C7: every simulator runs "read, add 1, output, halt" and the
\* seed is on simulator 0's input
AddOneRing == driver.program = Some(ProgAddOne) /\ driver.seedAt = 0

CoopOver == driver.phase \in {"done", "err", "panic"}

\* C7: three non-blocking "read, add 1, output, halt" simulators in a ring,
\* seeded with v on simulator 0's input and driven by the loop that calls
\* run() on each in turn until none is running: the loop meets no error, it
\* finishes, and when it has finished every simulator is Halted and v + 3 is
\* the one value the last simulator has sent on its output channel.
C7_RingCompletes ==
    /\ [](AddOneRing =>
            /\ driver.phase \notin {"err", "panic"}
            /\ driver.phase = "done" =>
                  /\ \A i \in CoopIds : sims[i].state = "Halted"
                  /\ sims[count - 1].io.output_sender = Some(InCh(0))
                  /\ chan[InCh(0)].sent = <<driver.seed, driver.seed + count>>
                  /\ chan[InCh(0)].q = <<driver.seed + count>>)
    /\ (AddOneRing ~> driver.phase = "done")

\* the loop over the C7 ring has finished and seed + 3 waits on the channel
\* the last simulator writes to
C7_Witness ==
    /\ AddOneRing
    /\ driver.phase = "done"
    /\ driver.seed = 5
    /\ chan[InCh(0)].q = <<8>>
    /\ \A i \in CoopIds : result[i] = Returned("run", "Ok", "Halted")

ThreadsDone ==
    \A i \in ThreadIds : call[i] = "idle" /\ result[i].of = "run"

\* C8: the ring driven by one loop over non-blocking simulators and the ring
\* driven by one blocking thread per simulator end, under every interleaving
\* of the threads, with the same sequence of values on every channel and the
\* same memory in every simulator (and the loop ends without an error).
C8_CoopEqualsThreaded ==
    (CoopOver /\ ThreadsDone) =>
        /\ driver.phase = "done"
        /\ \A i \in CoopIds :
              /\ sims[i].mem = sims[count + i].mem
              /\ chan[InCh(i)].sent = chan[InCh(count + i)].sent

---------------------------------------------------------------------------
(* Claims about suspension, channel errors and the effect of a failed step *)

\* this step is run() returning Ok to its caller
RunReturnsOk(i) ==
    /\ call'[i] = "idle"
    /\ result'[i].res = "Ok"
    /\ Run(i) \/ RunIter(i)

\* C11: the state becomes Wait, and run() returns Ok before the program has
\* halted, only through an Input instruction executed in non-blocking mode on
\* an empty channel; no other instruction (Output included, whatever is unread
\* on the channels) and no other public operation does either.
C11_OnlyInputSuspends ==
    [][(\/ sims[0].state # "Wait" /\ sims'[0].state = "Wait"
        \/ RunReturnsOk(0) /\ sims'[0].state # "Halted") =>
         (/\ Executes(0)
          /\ InputStarved(sims[0], chan)
          /\ sims'[0].state = "Wait")]_vars

\* the simulator has output a value nobody has read yet, gone on, and
\* suspended at its next Input
C11_Witness ==
    /\ sims[0].state = "Wait"
    /\ InputStarved(sims[0], chan)
    /\ IsSome(sims[0].io.output_sender)
    /\ chan[OutCh(0)].q # <<>>
    /\ result[0] = Returned("run", "Ok", "Wait")

\* an Input instruction is next and every Sender of the connected input
\* channel has been dropped
InputClosed(s, ch) ==
    /\ IsSome(s.io.input_reader)
    /\ InputOf(s, ch).senders = 0
    /\ NextIs(s, "Input")

\* C12 as claimed: once every Sender of the input channel is dropped, every
\* Input instruction fails with ChannelClosed and run() returns that error.
C12_ClosedAlwaysFails ==
    [][(InputClosed(sims[0], chan) /\ Executes(0)) =>
         (result'[0].res = "ChannelClosed" /\ call'[0] = "idle")]_vars

\* C12 amended: once every Sender is dropped, an Input instruction first takes
\* the values still queued, one each; with the queue empty it fails with
\* ChannelClosed in both modes, changing nothing, and run() returns the error.
C12_ClosedAndDrainedFails ==
    [][(InputClosed(sims[0], chan) /\ Executes(0)) =>
         IF InputOf(sims[0], chan).q = <<>>
         THEN /\ result'[0].res = "ChannelClosed"
              /\ call'[0] = "idle"
              /\ chan' = chan
              /\ sims'[0].mem = sims[0].mem
              /\ sims'[0].pc = sims[0].pc
         ELSE /\ result'[0].res # "ChannelClosed"
              /\ InputOf(sims[0], chan').q = Tail(InputOf(sims[0], chan).q)]_vars

\* a blocking run() took the one queued value and then failed on the closed
\* channel
C12_Witness ==
    /\ sims[0].io.blocking_input
    /\ InputClosed(sims[0], chan)
    /\ Taken(chan[InCh(0)]) = 1
    /\ chan[InCh(0)].q = <<>>
    /\ result[0].of = "run" /\ result[0].res = "ChannelClosed"
    /\ call[0] = "idle"

\* the next instruction is an Input with no input channel connected, or an
\* Output with no output channel connected
ChannelMissing(s) ==
    \/ ~IsSome(s.io.input_reader) /\ NextIs(s, "Input")
    \/ ~IsSome(s.io.output_sender) /\ NextIs(s, "Output")

\* C13: an Input instruction without an input channel and an Output
\* instruction without an output channel fail with MissingChannel, whatever
\* the blocking flag, and leave memory, pc and relative base (and the
\* channels) as they were; run() returns the error.
C13_MissingChannelFails ==
    [][(ChannelMissing(sims[0]) /\ Executes(0)) =>
         (/\ result'[0].res = "MissingChannel"
          /\ call'[0] = "idle"
          /\ sims'[0].mem = sims[0].mem
          /\ sims'[0].pc = sims[0].pc
          /\ sims'[0].relative_base = sims[0].relative_base
          /\ chan' = chan)]_vars

\* a blocking simulator that has moved its relative base failed at an Input
\* for want of an input channel
C13_Witness ==
    /\ sims[0].io.blocking_input
    /\ NextIs(sims[0], "Input")
    /\ ~IsSome(sims[0].io.input_reader)
    /\ sims[0].relative_base = 7
    /\ sims[0].pc = 2
    /\ result[0] = Returned("run", "MissingChannel", "Halted")

\* the destination operand of the writing instruction named `name`
DestIndex(name) == IF name = "Input" THEN 1 ELSE 3

\* the next instruction writes to memory and its destination operand is in
\* Immediate mode; for an Input, the input channel is connected and open, so
\* that no channel error is due
WritesToImmediate(s, ch) ==
    /\ get_next_op(s).ok
    /\ get_next_op(s).val.name
          \in {"Add", "Multiply", "Input", "LessThan", "Equal"}
    /\ Operand(s, DestIndex(get_next_op(s).val.name)).kind = "Value"
    /\ NextIs(s, "Input") =>
          (IsSome(s.io.input_reader) /\ InputOf(s, ch).senders > 0)

\* C14: a writing instruction (Add, Multiply, Input, LessThan, Equal) whose
\* destination operand is in Immediate mode fails with InvalidDestination,
\* writes nothing to memory and does not advance the pc.
C14_ImmediateDestFails ==
    [][(WritesToImmediate(sims[0], chan) /\ Executes(0)) =>
         (/\ result'[0].res = "InvalidDestination"
          /\ sims'[0].mem = sims[0].mem
          /\ sims'[0].pc = sims[0].pc)]_vars

\* what a call returned is an error (not Ok, not a panic)
IsError(res) == res \notin {"None", "Pending", "Ok", "Panic"}

\* C15: a step that fails with an error leaves memory, pc and relative base
\* exactly as they were before it, so what the instructions before it did
\* stays in place, and run() returns the error without stepping again.
C15_FailedStepHasNoEffect ==
    [][(IsError(result'[0].res) /\ Executes(0)) =>
         (/\ sims'[0].mem = sims[0].mem
          /\ sims'[0].pc = sims[0].pc
          /\ sims'[0].relative_base = sims[0].relative_base
          /\ call'[0] = "idle")]_vars

\* run() read a value, added 1 to it in memory and then failed at the Output,
\* the Receiver of the output channel being gone
C15_Witness ==
    /\ driver.program = Some(ProgAddOne)
    /\ result[0] = Returned("run", "ChannelClosed", "Halted")
    /\ call[0] = "idle"
    /\ NextIs(sims[0], "Output")
    /\ sims[0].pc = 6
    /\ peek(sims[0], 9) = Head(chan[InCh(0)].sent) + 1

---------------------------------------------------------------------------
(* Claims about Output *)

\* C16: an Output instruction that succeeds appends exactly one value, its
\* resolved operand, at the tail of the output channel, advances the pc by 2
\* and changes no memory cell (nor any other channel): the Receiver finds the
\* values in the order the Output instructions executed.
C16_OutputAppendsOne ==
    [][(/\ result'[0].res \in {"Ok", "Pending"}
        /\ NextIs(sims[0], "Output")
        /\ Executes(0)) =>
         LET c == Unwrap(sims[0].io.output_sender)
             v == load(sims[0], Operand(sims[0], 1))
         IN  /\ chan'[c].sent = Append(chan[c].sent, v)
             /\ chan'[c].q = Append(chan[c].q, v)
             /\ \A d \in DOMAIN chan \ {c} : chan'[d] = chan[d]
             /\ sims'[0].pc = sims[0].pc + 2
             /\ sims'[0].mem = sims[0].mem]_vars

\* two Output instructions have executed; their values wait on the output
\* channel in that order
C16_Witness ==
    /\ driver.program = Some(ProgTwoInputs)
    /\ sims[0].state = "Halted"
    /\ chan[InCh(0)].sent = <<5, 8>>
    /\ chan[OutCh(0)].q = <<5, 8>>

---------------------------------------------------------------------------
(* The "last output" a simulator records for callers that poll it instead  *)
(* of reading the channel (day07 reads it after its feedback loop).  The   *)
(* record is kept beside the simulator, in driver.last_output.             *)

PollPrograms == {ProgOutput, ProgAddOne, ProgTwoInputs, ProgEcho, ProgRelative}

\* mutant of record_output: only the first value is ever recorded
record_output_First(last, s, r) ==
    IF r.res = "Ok" /\ NextIs(s, "Output") /\ ~IsSome(last)
    THEN Some(load(s, Operand(s, 1)))
    ELSE last

\* an Output instruction that has sent its value records it as last output;
\* s is the simulator before the step, r what the step returned
record_output(last, s, r) ==
    IF r.res = "Ok" /\ NextIs(s, "Output")
    THEN Some(load(s, Operand(s, 1)))
    ELSE last

last_output(d) == Unwrap(d.last_output)

PollInit ==
    \E program \in PollPrograms :
        /\ sims = [i \in {0} |->
                      connect_output(connect_input(with_program(program),
                                                   InCh(0)), OutCh(0))]
        /\ chan = [c \in {InCh(0), OutCh(0)} |-> NewChannel]
        /\ call = [i \in {0} |-> "idle"]
        /\ result = [i \in {0} |-> NotCalled]
        /\ driver = [last_output |-> None]

\* one pass of run()'s loop, the record kept up to date
PollRunLoop(s, from) ==
    /\ RunLoop(0, s, from)
    /\ driver' = [driver EXCEPT
                     !.last_output = record_output(@, s, step(s, chan))]

PollRun ==
    /\ Idle(0)
    /\ PollRunLoop(RunEnter(sims[0]), sims[0].state)

PollIter ==
    /\ call[0] = "run"
    /\ PollRunLoop(sims[0], result[0].from)

PollNext ==
    \/ SendInput(0)
    \/ PollRun
    \/ PollIter

PollSpec == PollInit /\ [][PollNext]_vars

\* C17: once an Output instruction has executed successfully, last_output()
\* is the value most recently sent on the output channel.
C17_LastOutputIsLatest ==
    LET sent == chan[OutCh(0)].sent
    IN  sent # <<>> =>
           /\ IsSome(driver.last_output)
           /\ last_output(driver) = sent[Len(sent)]

\* two different values have been output; the later one is the last output
C17_Witness ==
    /\ chan[OutCh(0)].sent = <<5, 8>>
    /\ IsSome(driver.last_output)
    /\ last_output(driver) = 8

---------------------------------------------------------------------------
(* Two simulators loaded from one Program.  A Vec is a buffer on the heap: *)
(* here sims[i].mem and driver.program are buffer ids and driver.heap maps *)
(* a buffer id to its cells, so that sharing a buffer would show.          *)

PairIds == {0, 1}
PairPrograms == {ProgHalt, ProgDay2, ProgBadDest, ProgNegAddr}

FreshId(heap) ==
    CHOOSE k \in 0..Cardinality(DOMAIN heap) : k \notin DOMAIN heap

\* mutant of Vec::clone: the clone is the same buffer
Vec_clone_Shares(heap, src) == [heap |-> heap, id |-> src]

\* Vec::clone: a new buffer holding the same cells
Vec_clone(heap, src) ==
    [heap |-> heap @@ (FreshId(heap) :> heap[src]), id |-> FreshId(heap)]

\* the Vec a simulator owned is dropped when another is assigned to mem
Vec_drop(heap, id, live) ==
    IF id \in live THEN heap ELSE [k \in DOMAIN heap \ {id} |-> heap[k]]

\* simulator i with its memory read through the heap
Deref(ss, d, i) == [ss[i] EXCEPT !.mem = d.heap[ss[i].mem]]

\* what an operation on simulator i left: s, its memory written to i's buffer
PairWrite(i, s) ==
    /\ sims' = [sims EXCEPT ![i] = [s EXCEPT !.mem = sims[i].mem]]
    /\ driver' = [driver EXCEPT !.heap[sims[i].mem] = s.mem]

PairInit ==
    \E program \in PairPrograms :
        LET first == Vec_clone((0 :> program), 0)
            second == Vec_clone(first.heap, 0)
        IN  /\ sims = (0 :> load_program(Simulator_new, first.id))
                      @@ (1 :> load_program(Simulator_new, second.id))
            /\ driver = [heap |-> second.heap, program |-> 0]
            /\ chan = <<>>
            /\ call = [i \in PairIds |-> "idle"]
            /\ result = [i \in PairIds |-> NotCalled]

\* load_program on simulator i, from the Program both were loaded from
PairLoad(i) ==
    /\ Idle(i)
    /\ LET c == Vec_clone(driver.heap, driver.program)
           live == {driver.program} \cup {sims[j].mem : j \in PairIds \ {i}}
       IN  /\ sims' = [sims EXCEPT ![i] = load_program(@, c.id)]
           /\ driver' = [driver EXCEPT
                            !.heap = Vec_drop(c.heap, sims[i].mem, live)]
    /\ result' = [result EXCEPT ![i] = NotCalled]
    /\ UNCHANGED <<chan, call>>

PairPoke(i) ==
    /\ Idle(i)
    /\ \E address \in PokeAddrs, value \in PokeValues :
          PairWrite(i, poke(Deref(sims, driver, i), address, value))
    /\ UNCHANGED <<chan, call, result>>

\* one pass of run()'s loop on simulator i, which stands as s
PairRunLoop(i, s, from) ==
    \E r \in {step(s, chan)} :
        /\ WithinBounds(r)
        /\ PairWrite(i, r.sim)
        /\ chan' = r.ch
        /\ IF r.res # "Ok"
           THEN /\ call' = [call EXCEPT ![i] = "idle"]
                /\ result' = [result EXCEPT ![i] = Returned("run", r.res, from)]
           ELSE IF RunLeaves(r.sim)
           THEN /\ call' = [call EXCEPT ![i] = "idle"]
                /\ result' = [result EXCEPT ![i] = Returned("run", "Ok", from)]
           ELSE /\ call' = [call EXCEPT ![i] = "run"]
                /\ result' = [result EXCEPT ![i] = Returned("run", "Pending", from)]

PairRun(i) ==
    /\ Idle(i)
    /\ PairRunLoop(i, RunEnter(Deref(sims, driver, i)), sims[i].state)

PairIter(i) ==
    /\ call[i] = "run"
    /\ PairRunLoop(i, Deref(sims, driver, i), result[i].from)

\* an operation on simulator i
PairOp(i) == PairLoad(i) \/ PairPoke(i) \/ PairRun(i) \/ PairIter(i)

PairNext ==
    \/ \E i \in PairIds : PairLoad(i)
    \/ \E i \in PairIds : PairPoke(i)
    \/ \E i \in PairIds : PairRun(i)
    \/ \E i \in PairIds : PairIter(i)

PairSpec == PairInit /\ [][PairNext]_vars

\* memory, pc, relative base and state of simulator i
View(ss, d, i) ==
    [mem |-> d.heap[ss[i].mem], pc |-> ss[i].pc,
     relative_base |-> ss[i].relative_base, state |-> ss[i].state]

\* the instructions of the Program
Instructions(d) == d.heap[d.program]

\* C18: an operation on one simulator (load, poke, run, a failing run
\* included) leaves memory, pc, relative base and state of the other
\* simulator, and the Program both were loaded from, as they were.
C18_OthersUntouched ==
    [][\A i \in PairIds : PairOp(i) =>
          /\ Instructions(driver') = Instructions(driver)
          /\ \A j \in PairIds \ {i} :
                View(sims', driver', j) = View(sims, driver, j)]_vars

\* simulator 0 wrote to its memory and then failed; simulator 1 and the
\* Program still hold the text both were loaded from
C18_Witness ==
    /\ result[0] = Returned("run", "InvalidAddress", "Halted")
    /\ View(sims, driver, 0).mem # Instructions(driver)
    /\ peek(Deref(sims, driver, 0), 7) = 7
    /\ result[1] = NotCalled
    /\ View(sims, driver, 1).mem = Instructions(driver)

---------------------------------------------------------------------------
(* Claims about load, poke and peek *)

\* C19: load_program sets memory to exactly the Program's instructions
\* (whatever pokes and growth came before), pc to 0 and relative base to 0,
\* and leaves the connected channels, the values queued on them and the
\* blocking flag as they were.
C19_LoadResetsButKeepsIO ==
    [][LoadProgram(0) =>
         (/\ sims'[0].mem = Unwrap(driver'.program)
          /\ sims'[0].pc = 0
          /\ sims'[0].relative_base = 0
          /\ sims'[0].io = sims[0].io
          /\ chan' = chan)]_vars

\* a blocking simulator that had moved its base, grown its memory, output a
\* value and left one value unread on its input has been loaded again
C19_Witness ==
    /\ FreshlyLoaded(0)
    /\ driver.program = Some(ProgRelative)
    /\ sims[0].mem = ProgRelative
    /\ sims[0].pc = 0
    /\ sims[0].relative_base = 0
    /\ sims[0].io.blocking_input
    /\ sims[0].io.input_reader = Some(InCh(0))
    /\ chan[InCh(0)].q = <<8>>
    /\ chan[OutCh(0)].q = <<5>>

\* addresses inside and beyond the memory of s, and the values, with which
\* the pair is probed
ProbeAddrs(s) ==
    {a \in {0, Len(s.mem) - 1, Len(s.mem), Len(s.mem) + 2} : a >= 0}
ProbeValues == {-7, 0, 2}

\* C20: for every address a >= 0 and value v, poke(a, v) followed by peek(a)
\* returns v, whether a lies inside or beyond the current memory.
C20_PokeThenPeek ==
    \A a \in ProbeAddrs(sims[0]), v \in ProbeValues :
        peek(poke(sims[0], a, v), a) = v

\* the driver has poked 2 at address 12 of a one-cell program and peek
\* finds it there
C20_Witness ==
    /\ driver.program = Some(ProgHalt)
    /\ driver.pokes = 1
    /\ Len(sims[0].mem) = 13
    /\ peek(sims[0], 12) = 2
    /\ peek(sims[0], 0) = 99

---------------------------------------------------------------------------
(* One simulator on programs that reach the edges of decoding and memory:  *)
(* reads beyond the tape, opcodes and addresses that are not valid, a pc   *)
(* that leaves the tape; and a caller that takes the input Receiver back   *)
(* with disconnect_input and connects it again.                            *)

EdgePrograms ==
    {<<1001, 20, 5, 0, 4, 30, 99>>,        \* Add and Output read beyond the tape
     <<109, 5, 1101, -3, 2, 7, -101>>,     \* base 5, -3+2 -> [7], opcode -101
     <<1101, 50, 50, 4, 99>>,              \* 100 -> [4], then opcode 100
     <<0>>,                                \* opcode 0
     ProgNegAddr,                          \* Position operand -1
     <<109, 2, 204, -3, 99>>,              \* Relative operand: base 2 - 3
     <<301, 0, -1, 0, 99>>,                \* mode digit 3, then Position -1
     <<3001, -1, 0, 0, 99>>,               \* Position -1, then mode digit 3
     <<3, -1, 99>>,                        \* Input to address -1
     ProgBaseOverflow,                     \* base 2, then base 2 - 3
     <<109, 4, 209, 0, 99>>,               \* base 4, then base 4 + [4+0]
     ProgTwoInputs,                        \* two Inputs, two Outputs
     ProgRelative,                         \* Relative write and read
     <<1101, 1, 1, 0>>,                    \* no Halt after the last instruction
     <<1105, 1, 7, 99>>,                   \* jump to 7, beyond the tape
     <<1105, 0, 0, 1>>,                    \* an Add whose operands are cut off
     <<3104, 5, 3199>>,                    \* mode digits past the operand count
     <<109, 3, 22201, 0, 1, 2, 99>>,       \* Add with three Relative operands
     ProgBadDest,                          \* Add with an Immediate destination
     <<1, 0, 0, 0, 99>>,                   \* test_add: the destination is a source
     <<1002, 0, 3, 0, 99>>,                \* Multiply onto its own source
     <<7, 0, 4, 0, 99>>,                   \* LessThan, true, onto its own source
     <<1107, 5, 5, 7, 99>>,                \* LessThan, false, beyond the tape
     <<8, 0, 0, 0, 99>>,                   \* Equal, true, onto its own source
     <<1108, 5, 6, 1, 99>>,                \* Equal, false
     <<6, 4, 5, 99, 0, 3>>,                \* JumpIfFalse, taken, to [5] = 3
     <<1006, 0, 3, 99>>,                   \* JumpIfFalse, not taken
     <<1105, 1, -1, 99>>}                  \* JumpIfTrue to -1

\* mutant of disconnect_input: the Receiver is handed out and stays connected
disconnect_input_Keeps(s) == [ret |-> s.io.input_reader, sim |-> s]

\* Simulator::disconnect_input: Option::take on the input Receiver
disconnect_input(s) ==
    [ret |-> s.io.input_reader, sim |-> [s EXCEPT !.io.input_reader = None]]

\* load_program, from one of the edge programs
EdgeLoadProgram(i) ==
    /\ Idle(i)
    /\ \E program \in EdgePrograms :
          /\ driver.program \in {None, Some(program)}
          /\ sims' = [sims EXCEPT ![i] = load_program(@, program)]
          /\ driver' = [driver EXCEPT !.pokes = 0, !.program = Some(program)]
    /\ result' = [result EXCEPT ![i] = NotCalled]
    /\ UNCHANGED <<chan, call>>

\* `held = sim.disconnect_input()`: the caller keeps what comes back
DisconnectInput(i) ==
    /\ Idle(i)
    /\ driver.held = None
    /\ sims' = [sims EXCEPT ![i] = disconnect_input(@).sim]
    /\ driver' = [driver EXCEPT !.held = disconnect_input(sims[i]).ret]
    /\ UNCHANGED <<chan, call, result>>

\* `sim.connect_input(held)`: the Receiver taken back is connected again
ConnectInput(i) ==
    /\ Idle(i)
    /\ IsSome(driver.held)
    /\ sims' = [sims EXCEPT ![i] = connect_input(@, Unwrap(driver.held))]
    /\ driver' = [driver EXCEPT !.held = None]
    /\ UNCHANGED <<chan, call, result>>

EdgeInit ==
    /\ sims = [i \in {0} |-> Simulator_new]
    /\ chan = [c \in {InCh(0), OutCh(0)} |-> NoChannel]
    /\ call = [i \in {0} |-> "idle"]
    /\ result = [i \in {0} |-> NotCalled]
    /\ driver = [pokes |-> 0, program |-> None, held |-> None]

EdgeNext ==
    \/ EdgeLoadProgram(0)
    \/ Poke(0)
    \/ CreateInputChannel(0)
    \/ CreateOutputChannel(0)
    \/ SendInput(0)
    \/ DisconnectInput(0)
    \/ ConnectInput(0)
    \/ Run(0)
    \/ RunIter(0)
    \/ Step(0)

EdgeSpec == EdgeInit /\ [][EdgeNext]_vars

---------------------------------------------------------------------------
(* Claims about reads beyond memory and the length of memory *)

\* operand k of the next instruction is an address at or beyond the end of
\* memory
Beyond(s, k) ==
    Operand(s, k).kind = "Address" /\ Operand(s, k).v >= Len(s.mem)

\* C21: a read of an address at or beyond the current memory length returns
\* 0 and does not fail: peek of such an address is 0 (peek borrows the
\* simulator immutably and returns a plain value), an Output of such a cell
\* sends 0 and leaves memory as it was, and an Add of such a cell adds 0 and
\* changes memory only at its own destination.
C21_ReadBeyondIsZero ==
    /\ [](\A a \in ProbeAddrs(sims[0]) :
             a >= Len(sims[0].mem) => peek(sims[0], a) = 0)
    /\ [][(/\ IsSome(sims[0].io.output_sender)
           /\ chan[OutCh(0)].receiver
           /\ NextIs(sims[0], "Output")
           /\ Beyond(sims[0], 1)
           /\ Executes(0)) =>
            (/\ result'[0].res \in {"Ok", "Pending"}
             /\ chan'[OutCh(0)].sent = Append(chan[OutCh(0)].sent, 0)
             /\ sims'[0].mem = sims[0].mem)]_vars
    /\ [][(/\ NextIs(sims[0], "Add")
           /\ Beyond(sims[0], 1)
           /\ Operand(sims[0], 2).kind = "Value"
           /\ Operand(sims[0], 3).kind = "Address"
           /\ Operand(sims[0], 3).v < Len(sims[0].mem)
           /\ Executes(0)) =>
            (/\ result'[0].res \in {"Ok", "Pending"}
             /\ sims'[0].mem =
                   [sims[0].mem EXCEPT ![Operand(sims[0], 3).v + 1] =
                        0 + Operand(sims[0], 2).v])]_vars

\* the Add has read cell 20 of a 7-cell memory as 0 and the Output cell 30
C21_Witness ==
    /\ driver.program = Some(<<1001, 20, 5, 0, 4, 30, 99>>)
    /\ sims[0].mem = <<5, 20, 5, 0, 4, 30, 99>>
    /\ chan[OutCh(0)].sent = <<0>>
    /\ sims[0].state = "Halted"

\* C22: no poke, step or run makes the memory of a simulator shorter.
C22_MemoryNeverShrinks ==
    [][Len(sims'[0].mem) < Len(sims[0].mem) =>
          ~(Poke(0) \/ Executes(0))]_vars

\* a poke beyond the end has made a memory of 13 cells, and a run() that
\* wrote to a cell inside it has left the length as it was
C22_Witness ==
    /\ driver.program = Some(<<1101, 50, 50, 4, 99>>)
    /\ driver.pokes = 1
    /\ Len(sims[0].mem) = 13
    /\ peek(sims[0], 4) = 100
    /\ result[0].of = "run"

---------------------------------------------------------------------------
(* Claims about the failures of decoding *)

\* v, taken modulo 100, is none of 1..9 and 99; so is every negative v
InvalidOpcodeValue(v) ==
    v < 0 \/ (v % 100) \notin ((1..9) \cup {99})

\* C23: when the value at the pc is not a valid opcode (0, a negative value
\* and 10..98 modulo 100), the step fails with InvalidOpcode and leaves
\* memory, pc, relative base and state as it found them (under run() it finds
\* the state Running, which run() sets before it steps); run() returns the
\* error.
C23_InvalidOpcodeFails ==
    [][(/\ sims[0].pc < Len(sims[0].mem)
        /\ InvalidOpcodeValue(MemAt(sims[0].mem, sims[0].pc))
        /\ Executes(0)) =>
         (/\ result'[0].res = "InvalidOpcode"
          /\ call'[0] = "idle"
          /\ chan' = chan
          /\ (Step(0) \/ RunIter(0)) => sims'[0] = sims[0]
          /\ Run(0) => sims'[0] = RunEnter(sims[0]))]_vars

\* a run() that had moved the base and grown memory has failed at the cell
\* holding -101
C23_Witness ==
    /\ sims[0].pc < Len(sims[0].mem)
    /\ MemAt(sims[0].mem, sims[0].pc) = -101
    /\ sims[0].relative_base = 5
    /\ Len(sims[0].mem) = 8
    /\ sims[0].state = "Running"
    /\ result[0] = Returned("run", "InvalidOpcode", "Halted")

\* the mode digit of operand i (0-based) in the instruction value w > 0
ModeDigit(w, i) == ((w \div 100) \div Pow10(i)) % 10

\* the opcode at the pc is valid; its variant
ValidOpcode(s) ==
    s.pc < Len(s.mem) /\ ~InvalidOpcodeValue(MemAt(s.mem, s.pc))
OpAt(s) == Unwrap(OpName(MemAt(s.mem, s.pc) % 100))

\* the operand word i of the instruction at the pc
Word(s, i) == MemAt(s.mem, s.pc + i + 1)

\* operand i of the instruction at the pc is in Position or Relative mode
\* and resolves to a negative address
NegativeOperand(s, i) ==
    /\ s.pc + i + 1 < Len(s.mem)
    /\ \/ ModeDigit(MemAt(s.mem, s.pc), i) = 0 /\ Word(s, i) < 0
       \/ ModeDigit(MemAt(s.mem, s.pc), i) = 2
            /\ s.relative_base + Word(s, i) < 0

\* the operands of the instruction at the pc that resolve to a negative
\* address
NegativeOperands(s) ==
    IF ValidOpcode(s)
    THEN {i \in 0..(OpSize(OpAt(s)) - 2) : NegativeOperand(s, i)}
    ELSE {}

\* some operand before operand i has a mode digit that is no mode
BadModeBefore(s, i) ==
    \E j \in 0..(i - 1) : ModeDigit(MemAt(s.mem, s.pc), j) \notin {0, 1, 2}

\* C24 as claimed: if any operand of the instruction at the pc resolves to a
\* negative address, the step fails with InvalidAddress, memory, pc, relative
\* base and channels unchanged.
C24_NegativeAddressFails ==
    [][(NegativeOperands(sims[0]) # {} /\ Executes(0)) =>
         (/\ result'[0].res = "InvalidAddress"
          /\ sims'[0].mem = sims[0].mem
          /\ sims'[0].pc = sims[0].pc
          /\ sims'[0].relative_base = sims[0].relative_base
          /\ chan' = chan)]_vars

\* C24 amended: the operands are decoded in order and the first failure
\* decides.  If an operand resolves to a negative address the step fails
\* with InvalidAddress, unless an operand before it has an invalid mode
\* digit, and then it fails with InvalidParameterMode; either way memory, pc,
\* relative base and channels are unchanged.
C24_FirstBadOperandDecides ==
    [][(NegativeOperands(sims[0]) # {} /\ Executes(0)) =>
         (/\ result'[0].res =
                IF \A i \in NegativeOperands(sims[0]) :
                       BadModeBefore(sims[0], i)
                THEN "InvalidParameterMode" ELSE "InvalidAddress"
          /\ call'[0] = "idle"
          /\ sims'[0].mem = sims[0].mem
          /\ sims'[0].pc = sims[0].pc
          /\ sims'[0].relative_base = sims[0].relative_base
          /\ chan' = chan)]_vars

\* an Input whose destination is address -1 has failed with InvalidAddress
\* and the value queued for it is still on the channel
C24_Witness ==
    /\ driver.program = Some(<<3, -1, 99>>)
    /\ sims[0].io.input_reader = Some(InCh(0))
    /\ chan[InCh(0)].q = <<5>>
    /\ sims[0].pc = 0
    /\ result[0] = Returned("run", "InvalidAddress", "Halted")

\* C25: AdjustRelativeBase adds its resolved operand to the relative base and
\* advances the pc by 2, memory unchanged; if the sum is negative the step
\* fails with BaseOverflow, relative base and pc keep their values and run()
\* returns the error.
C25_AdjustAddsOrFails ==
    [][(NextIs(sims[0], "AdjustRelativeBase") /\ Executes(0)) =>
         LET sum == sims[0].relative_base + load(sims[0], Operand(sims[0], 1))
         IN  /\ sims'[0].mem = sims[0].mem
             /\ chan' = chan
             /\ IF sum < 0
                THEN /\ result'[0].res = "BaseOverflow"
                     /\ call'[0] = "idle"
                     /\ sims'[0].relative_base = sims[0].relative_base
                     /\ sims'[0].pc = sims[0].pc
                ELSE /\ result'[0].res \in {"Ok", "Pending"}
                     /\ sims'[0].relative_base = sum
                     /\ sims'[0].pc = sims[0].pc + 2]_vars

\* the base went from 0 to 2, and the adjustment by -3 that followed failed
\* and left base 2 and the pc at the failing instruction
C25_Witness ==
    /\ driver.program = Some(ProgBaseOverflow)
    /\ sims[0].relative_base = 2
    /\ sims[0].pc = 2
    /\ result[0] = Returned("run", "BaseOverflow", "Halted")

---------------------------------------------------------------------------
(* Claims about disconnect_input *)

\* C26: disconnect_input returns the connected Receiver (None when there is
\* none) and leaves the simulator without an input channel and otherwise as
\* it was; an Input instruction then fails with MissingChannel; connect_input
\* with the returned Receiver connects it again; and through all of it the
\* channel keeps its values: the queue is always the part of what was sent
\* that no Input has taken, and an Input that finds a value takes the oldest
\* one and stores it.
C26_DisconnectAndReconnect ==
    /\ [][DisconnectInput(0) =>
            (/\ driver'.held = sims[0].io.input_reader
             /\ sims'[0] = [sims[0] EXCEPT !.io.input_reader = None]
             /\ chan' = chan)]_vars
    /\ [][(/\ IsSome(driver.held)
           /\ NextIs(sims[0], "Input")
           /\ Executes(0)) =>
            (/\ result'[0].res = "MissingChannel"
             /\ call'[0] = "idle"
             /\ chan' = chan)]_vars
    /\ [][ConnectInput(0) =>
            (/\ sims'[0] = [sims[0] EXCEPT !.io.input_reader = driver.held]
             /\ chan' = chan)]_vars
    /\ [](LET c == chan[InCh(0)]
          IN  c.q = SubSeq(c.sent, Taken(c) + 1, Len(c.sent)))
    /\ [][(/\ IsSome(sims[0].io.input_reader)
           /\ InputOf(sims[0], chan).q # <<>>
           /\ NextIs(sims[0], "Input")
           /\ Operand(sims[0], 1).kind = "Address"
           /\ Executes(0)) =>
            (/\ InputOf(sims[0], chan').q = Tail(InputOf(sims[0], chan).q)
             /\ peek(sims'[0], Operand(sims[0], 1).v)
                  = Head(InputOf(sims[0], chan).q))]_vars

\* the first Input took 5; the Receiver was then taken away with 8 queued,
\* the second Input failed with MissingChannel, and the Receiver has been
\* connected again with 8 still queued
C26_Witness ==
    /\ driver.program = Some(ProgTwoInputs)
    /\ driver.held = None
    /\ sims[0].io.input_reader = Some(InCh(0))
    /\ chan[InCh(0)].sent = <<5, 8>>
    /\ chan[InCh(0)].q = <<8>>
    /\ peek(sims[0], 9) = 5
    /\ sims[0].pc = 2
    /\ result[0].res = "MissingChannel"

---------------------------------------------------------------------------
(* Add and Multiply at the width of isize.  The cells of this simulator    *)
(* are 64-bit values, written as a sign and the decimal digits of the      *)
(* magnitude in groups of four, least significant group first; the value   *)
(* 1219070632396864 is [neg |-> FALSE, mag |-> <<6864, 3239, 706, 1219>>]. *)

Limb == 10000

\* the magnitude without its leading zero groups
RECURSIVE Strip(_)
Strip(a) ==
    IF a # <<>> /\ a[Len(a)] = 0 THEN Strip(SubSeq(a, 1, Len(a) - 1)) ELSE a

Wide(neg, mag) == [neg |-> neg /\ Strip(mag) # <<>>, mag |-> Strip(mag)]

\* an isize given as a number of the model
RECURSIVE Limbs(_)
Limbs(n) == IF n = 0 THEN <<>> ELSE <<n % Limb>> \o Limbs(n \div Limb)
W(n) == Wide(n < 0, Limbs(IF n < 0 THEN -n ELSE n))

\* a cell that holds an instruction or an address, as a number of the model
WToInt(w) ==
    LET m == [k \in 1..2 |-> IF k <= Len(w.mag) THEN w.mag[k] ELSE 0]
    IN  (IF w.neg THEN -1 ELSE 1) * (m[1] + Limb * m[2])

MagLess(a, b) ==
    IF Len(a) # Len(b) THEN Len(a) < Len(b)
    ELSE \E k \in 1..Len(a) :
            a[k] < b[k] /\ \A j \in (k + 1)..Len(a) : a[j] = b[j]

RECURSIVE MagAdd(_, _, _)
MagAdd(a, b, carry) ==
    IF a = <<>> /\ b = <<>> THEN (IF carry = 0 THEN <<>> ELSE <<carry>>)
    ELSE LET sum == (IF a = <<>> THEN 0 ELSE Head(a))
                    + (IF b = <<>> THEN 0 ELSE Head(b)) + carry
         IN  <<sum % Limb>> \o MagAdd(IF a = <<>> THEN a ELSE Tail(a),
                                      IF b = <<>> THEN b ELSE Tail(b),
                                      sum \div Limb)

\* a - b for a >= b
RECURSIVE MagSub(_, _, _)
MagSub(a, b, borrow) ==
    IF a = <<>> THEN <<>>
    ELSE LET d == Head(a) - (IF b = <<>> THEN 0 ELSE Head(b)) - borrow
         IN  <<d % Limb>> \o MagSub(Tail(a), IF b = <<>> THEN b ELSE Tail(b),
                                    IF d < 0 THEN 1 ELSE 0)

\* a * d for one group d
RECURSIVE MagScale(_, _, _)
MagScale(a, d, carry) ==
    IF a = <<>> THEN (IF carry = 0 THEN <<>> ELSE <<carry>>)
    ELSE LET prod == Head(a) * d + carry
         IN  <<prod % Limb>> \o MagScale(Tail(a), d, prod \div Limb)

RECURSIVE MagMul(_, _)
MagMul(a, b) ==
    IF b = <<>> THEN <<>>
    ELSE MagAdd(MagScale(a, Head(b), 0), <<0>> \o MagMul(a, Tail(b)), 0)

\* x + y and x * y of the integers
WAdd(x, y) ==
    IF x.neg = y.neg THEN Wide(x.neg, MagAdd(x.mag, y.mag, 0))
    ELSE IF MagLess(x.mag, y.mag) THEN Wide(y.neg, MagSub(y.mag, x.mag, 0))
    ELSE Wide(x.neg, MagSub(x.mag, y.mag, 0))
WMul(x, y) == Wide(x.neg # y.neg, MagMul(x.mag, y.mag))

\* mutant of FitsIsize: isize is 32 bits wide
FitsIsize_32(w) ==
    IF w.neg THEN ~MagLess(<<3648, 4748, 21>>, w.mag)
    ELSE ~MagLess(<<3647, 4748, 21>>, w.mag)

\* isize::MIN <= w <= isize::MAX, isize being 64 bits wide
FitsIsize(w) ==
    IF w.neg THEN ~MagLess(<<5808, 5477, 3685, 3720, 922>>, w.mag)
    ELSE ~MagLess(<<5807, 5477, 3685, 3720, 922>>, w.mag)

\* `+` and `*` of isize: the result, or Overflow
isize_add(x, y) == IF FitsIsize(WAdd(x, y)) THEN Ok(WAdd(x, y)) ELSE Err("Overflow")
isize_mul(x, y) == IF FitsIsize(WMul(x, y)) THEN Ok(WMul(x, y)) ELSE Err("Overflow")

\* get_param on cells of full width
wide_get_param(s, i) ==
    LET mode == parameter_mode(WToInt(MemAt(s.mem, s.pc)), i)
    IN  IF ~mode.ok THEN mode
        ELSE IF s.pc + i + 1 >= Len(s.mem) THEN Err("Panic")
        ELSE LET raw_value == MemAt(s.mem, s.pc + i + 1)
             IN  CASE mode.val = "Position" -> to_address(WToInt(raw_value))
                   [] mode.val = "Immediate" -> Ok(Value(raw_value))
                   [] mode.val = "Relative" ->
                        to_address(s.relative_base + WToInt(raw_value))

\* The Add, Multiply, Output and Halt arms of step on cells of full width
\* (the programs of this specification hold no other instruction).  An
\* overflowing `+` or `*` panics in a build with overflow checks (debug) and
\* wraps in one without (release); the wrapped value is kept as
\* [wraps |-> the integer result].
wide_step(s, ch, build) ==
    LET opcode == RustRem(WToInt(MemAt(s.mem, s.pc)), 100)
        n == CASE opcode \in {1, 2} -> 3 [] opcode = 4 -> 1 [] opcode = 99 -> 0
        bad == {i \in 0..(n - 1) : ~wide_get_param(s, i).ok}
        p == [i \in 1..n |-> wide_get_param(s, i - 1).val]
        arith(name, r) ==
            IF r.ok THEN StoreArm(s, ch, name, p[3], r.val)
            ELSE IF build = "debug" THEN StepOut("Panic", s, ch)
            ELSE StoreArm(s, ch, name, p[3],
                          [wraps |-> IF name = "Add"
                                     THEN WAdd(load(s, p[1]), load(s, p[2]))
                                     ELSE WMul(load(s, p[1]), load(s, p[2]))])
    IN  IF bad # {}
        THEN StepOut(wide_get_param(s, CHOOSE i \in bad :
                                          \A j \in bad : i <= j).err, s, ch)
        ELSE CASE opcode = 1 ->
                    arith("Add", isize_add(load(s, p[1]), load(s, p[2])))
              [] opcode = 2 ->
                    arith("Multiply", isize_mul(load(s, p[1]), load(s, p[2])))
              [] opcode = 4 -> OutputArm(s, ch, p[1])
              [] opcode = 99 -> HaltArm(s, ch)

\* operands around the widths of 32 and 64 bits
ArithOperands ==
    {W(0), W(1), W(-1), W(46341), W(34915192), W(-34915192),
     Wide(FALSE, <<499, 3700, 30>>),                 \* 3037000499
     Wide(FALSE, <<500, 3700, 30>>),                 \* 3037000500
     Wide(FALSE, <<5807, 5477, 3685, 3720, 922>>),   \* isize::MAX
     Wide(TRUE, <<5808, 5477, 3685, 3720, 922>>)}    \* isize::MIN

\* the program of test_large_multiply, for Add and Multiply and any operands
ArithInit ==
    \E op \in {1101, 1102}, x \in ArithOperands, y \in ArithOperands,
       build \in {"debug", "release"} :
        /\ sims = [i \in {0} |->
                      connect_output(
                          with_program(<<W(op), x, y, W(7), W(4), W(7),
                                         W(99), W(0)>>), OutCh(0))]
        /\ chan = [c \in {InCh(0), OutCh(0)} |-> NewChannel]
        /\ call = [i \in {0} |-> "idle"]
        /\ result = [i \in {0} |-> NotCalled]
        /\ driver = [op |-> op, x |-> x, y |-> y, build |-> build]

\* one pass of run()'s loop on cells of full width
ArithLoop(s, from) ==
    \E r \in {wide_step(s, chan, driver.build)} :
        /\ sims' = [sims EXCEPT ![0] = r.sim]
        /\ chan' = r.ch
        /\ IF r.res # "Ok"
           THEN /\ call' = [call EXCEPT ![0] = "idle"]
                /\ result' = [result EXCEPT ![0] = Returned("run", r.res, from)]
           ELSE IF RunLeaves(r.sim)
           THEN /\ call' = [call EXCEPT ![0] = "idle"]
                /\ result' = [result EXCEPT ![0] = Returned("run", "Ok", from)]
           ELSE /\ call' = [call EXCEPT ![0] = "run"]
                /\ result' = [result EXCEPT ![0] = Returned("run", "Pending", from)]
        /\ UNCHANGED driver

ArithRun ==
    /\ Idle(0)
    /\ result[0].of = "none"
    /\ ArithLoop(RunEnter(sims[0]), sims[0].state)

ArithIter ==
    /\ call[0] = "run"
    /\ ArithLoop(sims[0], result[0].from)

ArithNext ==
    \/ ArithRun
    \/ ArithIter

ArithSpec == ArithInit /\ [][ArithNext]_vars

---------------------------------------------------------------------------
(* Claims about the width of Add and Multiply *)

\* pairwise coprime moduli whose product exceeds 2^64: two values of the
\* 64-bit range with the same residues are the same value
Moduli == {9973, 9967, 9949, 9941, 9931}

\* the residue modulo m of a magnitude, and of a signed value
RECURSIVE MagMod(_, _)
MagMod(a, m) ==
    IF a = <<>> THEN 0 ELSE (MagMod(Tail(a), m) * Limb + Head(a)) % m
Residue(w, m) == IF w.neg THEN (m - MagMod(w.mag, m)) % m ELSE MagMod(w.mag, m)

\* -2^63 <= w <= 2^63 - 1, with 2^63 = 9223372036854775808
InI64(w) ==
    MagLess(w.mag, <<5808, 5477, 3685, 3720, 922>>)
        \/ (w.neg /\ w.mag = <<5808, 5477, 3685, 3720, 922>>)

\* the integer x + y or x * y of the operands the program was given
TrueResult == IF driver.op = 1101 THEN WAdd(driver.x, driver.y)
              ELSE WMul(driver.x, driver.y)

\* v is a 64-bit value and it is x + y (x * y): it has the residues of the sum
\* (the product) for every modulus
IsExact(v) ==
    /\ DOMAIN v = {"neg", "mag"}
    /\ v = Wide(v.neg, v.mag)
    /\ \A k \in 1..Len(v.mag) : v.mag[k] \in 0..(Limb - 1)
    /\ InI64(v)
    /\ \A m \in Moduli :
          Residue(v, m) =
             IF driver.op = 1101
             THEN (Residue(driver.x, m) + Residue(driver.y, m)) % m
             ELSE (Residue(driver.x, m) * Residue(driver.y, m)) % m

\* C27: when the integer result of an Add or Multiply fits in a signed 64-bit
\* integer, the instruction does not fail and the cell it has written holds
\* exactly that result, which the Output that follows sends.
C27_ExactArithmetic ==
    InI64(TrueResult) =>
        /\ result[0].res \in {"None", "Pending", "Ok"}
        /\ sims[0].pc >= 4 => IsExact(peek(sims[0], 7))
        /\ chan[OutCh(0)].sent # <<>> =>
              IsExact(chan[OutCh(0)].sent[1])

\* test_large_multiply: 34915192 * 34915192 has been stored and output as
\* 1219070632396864
C27_Witness ==
    /\ driver.op = 1102
    /\ driver.x = W(34915192) /\ driver.y = W(34915192)
    /\ peek(sims[0], 7) = [neg |-> FALSE, mag |-> <<6864, 3239, 706, 1219>>]
    /\ chan[OutCh(0)].sent = <<peek(sims[0], 7)>>
    /\ sims[0].state = "Halted"

---------------------------------------------------------------------------
(* Program::from_string.  A text is a sequence of characters. *)

\* the characters the texts are made of: digits, signs, the separator, a
\* letter and a blank
Chars == {"0", "7", "-", "+", ",", "x", " "}

\* char::to_digit(10)
Digit == [c \in {ToString(d) : d \in 0..9} |->
             CHOOSE d \in 0..9 : ToString(d) = c]

\* mutant of split: as split_terminator, no empty token after a last comma
RECURSIVE split_Terminator(_)
split_Terminator(text) ==
    LET commas == {k \in 1..Len(text) : text[k] = ","}
    IN  IF commas = {} THEN (IF text = <<>> THEN <<>> ELSE <<text>>)
        ELSE LET k == CHOOSE j \in commas : \A i \in commas : j <= i
             IN  <<SubSeq(text, 1, k - 1)>>
                   \o split_Terminator(SubSeq(text, k + 1, Len(text)))

\* str::split(','): the pieces between the commas, empty pieces included
RECURSIVE split(_)
split(text) ==
    LET commas == {k \in 1..Len(text) : text[k] = ","}
    IN  IF commas = {} THEN <<text>>
        ELSE LET k == CHOOSE j \in commas : \A i \in commas : j <= i
             IN  <<SubSeq(text, 1, k - 1)>>
                   \o split(SubSeq(text, k + 1, Len(text)))

\* the value of a sequence of digits, most significant first
RECURSIVE Decimal(_, _)
Decimal(digits, acc) ==
    IF digits = <<>> THEN acc
    ELSE Decimal(Tail(digits), 10 * acc + Digit[Head(digits)])

\* str::parse::<isize>: an optional sign, then one digit at least and
\* nothing but digits
parse_isize(token) ==
    LET signed == token # <<>> /\ Head(token) \in {"+", "-"}
        digits == IF signed THEN Tail(token) ELSE token
    IN  IF digits = <<>> \/ \E k \in 1..Len(digits) : digits[k] \notin DOMAIN Digit
        THEN Err("ParseError")
        ELSE Ok(IF signed /\ Head(token) = "-"
                THEN -Decimal(digits, 0) ELSE Decimal(digits, 0))

\* Program::from_string: collect::<Result<Vec<isize>, _>>()? keeps the values
\* in order and fails when one token does
from_string(text) ==
    LET parsed == [k \in 1..Len(split(text)) |-> parse_isize(split(text)[k])]
    IN  IF \E k \in 1..Len(parsed) : ~parsed[k].ok THEN Err("ParseError")
        ELSE Ok([instructions |-> [k \in 1..Len(parsed) |-> parsed[k].val]])

\* the caller holds a text, and has no Program yet
ParseInit ==
    /\ sims = [i \in {0} |-> Simulator_new]
    /\ chan = [c \in {InCh(0), OutCh(0)} |-> NoChannel]
    /\ call = [i \in {0} |-> "idle"]
    /\ result = [i \in {0} |-> NotCalled]
    /\ \E n \in 0..MaxText : \E text \in [1..n -> Chars] :
          driver = [text |-> text, parsed |-> None]

\* `let program = Program::from_string(text)`
FromString ==
    /\ driver.parsed = None
    /\ driver' = [driver EXCEPT !.parsed = Some(from_string(driver.text))]
    /\ UNCHANGED <<sims, chan, call, result>>

\* `Simulator::with_program(&program)` with the Program that was parsed
WithProgram ==
    /\ IsSome(driver.parsed)
    /\ Unwrap(driver.parsed).ok
    /\ sims[0] = Simulator_new
    /\ sims' = [sims EXCEPT ![0] =
                   with_program(Unwrap(driver.parsed).val.instructions)]
    /\ UNCHANGED <<chan, call, result, driver>>

ParseNext ==
    \/ FromString
    \/ WithProgram

ParseSpec == ParseInit /\ [][ParseNext]_vars

---------------------------------------------------------------------------
(* Claims about from_string *)

\* The text read character by character, as a list  INT ("," INT)*  with
\* INT an optional sign and then digits: where the reading stands ("start" of
\* a token, after a "sign", in the "digits", or "bad"), the sign and value of
\* the token being read, and the values of the tokens before it.
RECURSIVE Scan(_, _)
Scan(text, st) ==
    IF text = <<>> THEN st
    ELSE LET c == Head(text)
             value == IF st.neg THEN -st.acc ELSE st.acc
         IN  Scan(Tail(text),
                  CASE st.at # "bad" /\ c \in DOMAIN Digit ->
                          [st EXCEPT !.at = "digits",
                                     !.acc = 10 * @ + Digit[c]]
                    [] st.at = "start" /\ c \in {"+", "-"} ->
                          [st EXCEPT !.at = "sign", !.neg = (c = "-")]
                    [] st.at = "digits" /\ c = "," ->
                          [at |-> "start", neg |-> FALSE, acc |-> 0,
                           out |-> Append(st.out, value)]
                    [] OTHER -> [st EXCEPT !.at = "bad"])

Scanned(text) ==
    Scan(text, [at |-> "start", neg |-> FALSE, acc |-> 0, out |-> <<>>])

\* the text is a non-empty comma-separated list of signed base-10 integers
WellFormed(text) == Scanned(text).at = "digits"

\* the integers of a well-formed text, in order
Integers_of(text) ==
    Append(Scanned(text).out,
           IF Scanned(text).neg THEN -Scanned(text).acc ELSE Scanned(text).acc)

---------------------------------------------------------------------------
(* Claims about the program counter and the operand modes *)

\* the pc is an index into memory and the instruction it points at, opcode
\* and operand words, lies inside memory
InsideMemory(s) ==
    /\ s.pc < Len(s.mem)
    /\ ValidOpcode(s) => s.pc + (OpSize(OpAt(s)) - 1) < Len(s.mem)

\* C29: whenever a step is taken by a simulator that is Running (it holds a
\* program and has not halted), the pc is a valid index into memory and the
\* instruction it points at lies wholly inside memory, so that decoding reads
\* no cell outside the tape; also after a jump and after the last instruction
\* of a program without a Halt.
C29_StepDecodesInsideMemory ==
    [][(sims[0].state = "Running" /\ ~InsideMemory(sims[0])) =>
          ~Executes(0)]_vars
\* the operands of the instruction at the pc, 0-based
OperandsAt(s) == 0..(OpSize(OpAt(s)) - 2)

\* the instruction at the pc lies inside memory, its opcode is valid, its
\* operands have mode digits 0, 1 or 2 and none resolves to a negative address
Decodable(s) ==
    /\ ValidOpcode(s)
    /\ InsideMemory(s)
    /\ \A i \in OperandsAt(s) :
          /\ ModeDigit(MemAt(s.mem, s.pc), i) \in {0, 1, 2}
          /\ ~NegativeOperand(s, i)

\* the address operand i stands for in mode 0 or 2, and the value it reads
\* in either mode
Target(s, i) ==
    IF ModeDigit(MemAt(s.mem, s.pc), i) = 0 THEN Word(s, i)
    ELSE s.relative_base + Word(s, i)
ReadValue(s, i) ==
    IF ModeDigit(MemAt(s.mem, s.pc), i) = 1 THEN Word(s, i)
    ELSE peek(s, Target(s, i))

\* C30: operand i of the instruction value w has the mode digit
\* (w / 100 / 10^i) mod 10; it resolves, in mode 0, to the cell at the address
\* its word p gives, in mode 1 to the literal p and in mode 2 to the cell at
\* relative_base + p, whatever digits w has beyond the operands of its
\* opcode.  An Output sends, and an Add adds, the values so read; an Add and
\* an Input write to the cell so addressed.
C30_ModesResolveOperands ==
    /\ [](Decodable(sims[0]) =>
            /\ get_next_op(sims[0]).ok
            /\ \A i \in OperandsAt(sims[0]) :
                  Operand(sims[0], i + 1) =
                     IF ModeDigit(MemAt(sims[0].mem, sims[0].pc), i) = 1
                     THEN Value(Word(sims[0], i))
                     ELSE Address(Target(sims[0], i)))
    /\ [][(/\ Decodable(sims[0])
           /\ OpAt(sims[0]) = "Output"
           /\ result'[0].res \in {"Ok", "Pending"}
           /\ Executes(0)) =>
            chan'[OutCh(0)].sent
               = Append(chan[OutCh(0)].sent, ReadValue(sims[0], 0))]_vars
    /\ [][(/\ Decodable(sims[0])
           /\ OpAt(sims[0]) = "Add"
           /\ result'[0].res \in {"Ok", "Pending"}
           /\ Executes(0)) =>
            peek(sims'[0], Target(sims[0], 2))
               = ReadValue(sims[0], 0) + ReadValue(sims[0], 1)]_vars
    /\ [][(/\ Decodable(sims[0])
           /\ OpAt(sims[0]) = "Input"
           /\ sims'[0].pc # sims[0].pc
           /\ Executes(0)) =>
            peek(sims'[0], Target(sims[0], 0))
               = Head(InputOf(sims[0], chan).q)]_vars

\* with base 7, Input 203,0 has written the value 5 to cell 7, beyond the
\* program, and Output 204,0 has read it from there
C30_Witness ==
    /\ driver.program = Some(ProgRelative)
    /\ sims[0].relative_base = 7
    /\ sims[0].mem = ProgRelative \o <<5>>
    /\ chan[OutCh(0)].sent = <<5>>
    /\ sims[0].state = "Halted"

---------------------------------------------------------------------------
(* Claims about what each instruction does *)

\* what Add, Multiply, LessThan and Equal compute from x and y
Computed(name, x, y) ==
    CASE name = "Add" -> x + y
      [] name = "Multiply" -> x * y
      [] name = "LessThan" -> IF x < y THEN 1 ELSE 0
      [] name = "Equal" -> IF x = y THEN 1 ELSE 0

\* the state the instruction found: run() sets Running before its first step
StateAtStep(i) ==
    IF call[i] = "idle" /\ result'[i].of = "run" THEN "Running"
    ELSE sims[i].state

\* C31: an Add, Multiply, LessThan or Equal that executes stores x+y, x*y,
\* (1 if x<y else 0) or (1 if x=y else 0), computed from the two source
\* operands as they were before the write, at its destination address,
\* advances the pc by 4 and changes no other cell, nor the relative base,
\* the state or the channels.
C31_ComputeAndStore ==
    [][(/\ Decodable(sims[0])
        /\ OpAt(sims[0]) \in {"Add", "Multiply", "LessThan", "Equal"}
        /\ result'[0].res \in {"Ok", "Pending"}
        /\ Executes(0)) =>
         (/\ peek(sims'[0], Target(sims[0], 2))
                = Computed(OpAt(sims[0]), ReadValue(sims[0], 0),
                           ReadValue(sims[0], 1))
          /\ sims'[0].pc = sims[0].pc + 4
          /\ \A a \in (0..MaxMem) \ {Target(sims[0], 2)} :
                peek(sims'[0], a) = peek(sims[0], a)
          /\ sims'[0].relative_base = sims[0].relative_base
          /\ sims'[0].state = StateAtStep(0)
          /\ sims'[0].io = sims[0].io
          /\ chan' = chan)]_vars

\* 7,0,4,0,99 has compared cell 0 (7) with cell 4 (99) and put 1 into cell 0,
\* one of the cells it read, and the next step has halted
C31_Witness ==
    /\ sims[0].mem = <<1, 0, 4, 0, 99>>
    /\ sims[0].pc = 5
    /\ sims[0].state = "Halted"
    /\ result[0] = Returned("run", "Ok", "Halted")

\* the instruction at the pc is a jump whose condition operand makes it jump
JumpTaken(s) ==
    \/ OpAt(s) = "JumpIfTrue" /\ ReadValue(s, 0) # 0
    \/ OpAt(s) = "JumpIfFalse" /\ ReadValue(s, 0) = 0

\* C32: a JumpIfTrue whose first operand is not zero, and a JumpIfFalse whose
\* first operand is zero, sets the pc to the value of its second operand;
\* otherwise the pc advances by 3; memory, the relative base, the state and
\* the channels stay as they were.
C32_JumpSetsPc ==
    [][(/\ Decodable(sims[0])
        /\ OpAt(sims[0]) \in {"JumpIfTrue", "JumpIfFalse"}
        /\ result'[0].res \in {"Ok", "Pending"}
        /\ Executes(0)) =>
         (/\ sims'[0].pc = IF JumpTaken(sims[0]) THEN ReadValue(sims[0], 1)
                           ELSE sims[0].pc + 3
          /\ sims'[0].mem = sims[0].mem
          /\ sims'[0].relative_base = sims[0].relative_base
          /\ sims'[0].state = StateAtStep(0)
          /\ sims'[0].io = sims[0].io
          /\ chan' = chan)]_vars

\* memory `new` is memory `old` after one write of v to address a
Written(old, new, a, v) ==
    /\ Len(new) = IF a >= Len(old) THEN a + 1 ELSE Len(old)
    /\ new[a + 1] = v
    /\ \A k \in (1..Len(new)) \ {a + 1} :
          new[k] = IF k <= Len(old) THEN old[k] ELSE 0

\* the value the writing instruction at the pc stores
StoredValue(s, ch) ==
    IF OpAt(s) = "Input" THEN Head(InputOf(s, ch).q)
    ELSE Computed(OpAt(s), ReadValue(s, 0), ReadValue(s, 1))

\* C33: a write to address a, by poke or by the destination of an
\* instruction, leaves memory a+1 cells long when a was at or beyond its
\* length, the new cells other than a being 0, and as long as it was
\* otherwise; cell a holds the value and every other cell that existed is
\* unchanged.
C33_WriteGrowsWithZeros ==
    /\ [][Poke(0) =>
            \E a \in PokeAddrs, v \in PokeValues :
               Written(sims[0].mem, sims'[0].mem, a, v)]_vars
    /\ [][(/\ Decodable(sims[0])
           /\ OpAt(sims[0]) \in {"Add", "Multiply", "Input", "LessThan", "Equal"}
           /\ sims'[0].pc # sims[0].pc
           /\ Executes(0)) =>
            Written(sims[0].mem, sims'[0].mem,
                    Target(sims[0], DestIndex(OpAt(sims[0])) - 1),
                    StoredValue(sims[0], chan))]_vars

\* poke(12, 2) on the five cells of 1107,5,5,7,99: thirteen cells, 5..11 zero
C33_Witness ==
    /\ driver.program = Some(<<1107, 5, 5, 7, 99>>)
    /\ driver.pokes = 1
    /\ sims[0].mem = <<1107, 5, 5, 7, 99, 0, 0, 0, 0, 0, 0, 0, 2>>

\* C34: the relative base is never negative; a load of a program sets it to
\* 0, and beyond that it changes only in a step that executes an
\* AdjustRelativeBase instruction without an error.
C34_BaseChangesOnlyByAdjust ==
    /\ [](sims[0].relative_base >= 0)
    /\ [][EdgeLoadProgram(0) => sims'[0].relative_base = 0]_vars
    /\ [][sims'[0].relative_base # sims[0].relative_base =>
            \/ EdgeLoadProgram(0)
            \/ /\ Decodable(sims[0])
               /\ OpAt(sims[0]) = "AdjustRelativeBase"
               /\ result'[0].res \in {"Ok", "Pending"}
               /\ Executes(0)]_vars

\* 109,4 and 209,0 have moved the base to 4 and then to 4 + 99, and the
\* Halt after them has left it there
C34_Witness ==
    /\ driver.program = Some(<<109, 4, 209, 0, 99>>)
    /\ sims[0].relative_base = 103
    /\ sims[0].state = "Halted"
    /\ sims[0].pc = 5

---------------------------------------------------------------------------
(* Claims about suspension and the driver's view of it *)

\* the simulator is suspended, and its input channel holds no value
WaitingOnEmpty(s, ch) ==
    /\ s.state = "Wait"
    /\ IsSome(s.io.input_reader)
    /\ InputOf(s, ch).q = <<>>

PassEnds ==
    /\ driver.phase = "loop"
    /\ driver.at = "ret"
    /\ driver.pos = count - 1
    /\ call[driver.pos] = "idle"
    /\ result[driver.pos].res = "Ok"

\* C36: is_running() is false exactly in the state Halted, so true in the
\* states Running and Wait; the driver loop, which goes on while any
\* simulator reported running in the pass, starts another pass over the
\* ring when a simulator is suspended at the end of a pass and stops when all
\* are halted.
C36_SuspendedCountsAsRunning ==
    /\ [](\A i \in CoopIds \cup ThreadIds :
            /\ sims[i].state \in {"Halted", "Running", "Wait"}
            /\ is_running(sims[i]) <=> sims[i].state \in {"Running", "Wait"})
    /\ [][(PassEnds /\ CoopReturn) =>
            IF \E i \in CoopIds : sims[i].state = "Wait"
            THEN /\ driver'.phase = "loop"
                 /\ driver'.pos = 0
                 /\ driver'.at = "call"
            ELSE /\ \A i \in CoopIds : sims[i].state = "Halted"
                 /\ driver'.phase = "done"]_vars

\* a pass over the ring has ended with simulators suspended, none of them
\* Running, and the loop is about to call run() on the first one again
C36_Witness ==
    /\ driver.phase = "loop"
    /\ driver.pos = 0
    /\ driver.at = "call"
    /\ result[count - 1] = Returned("run", "Ok", "Halted")
    /\ \E i \in CoopIds : sims[i].state = "Wait" /\ is_running(sims[i])
    /\ \E i \in CoopIds : sims[i].state = "Halted" /\ ~is_running(sims[i])

---------------------------------------------------------------------------
(* Two copies of one program, each with its own channels, fed the same     *)
(* values one by one and run by calls of run(), the sends and the calls    *)
(* coming at moments that are independent of each other.                   *)

TimingIds == {0, 1}

TimingPrograms ==
    {ProgTwoInputs, ProgAddOne, ProgAddOneTail, ProgRelative,
     <<3, 11, 1005, 11, 6, 99, 4, 11, 99>>}   \* read x; output x unless x = 0

TimingValues == {0, 5}

\* with_program, create_input_channel, create_output_channel for each copy
TimingInit ==
    \E program \in TimingPrograms, values \in [1..MaxSends -> TimingValues] :
        /\ sims = [i \in TimingIds |->
                      connect_output(connect_input(with_program(program),
                                                   InCh(i)), OutCh(i))]
        /\ chan = [c \in {InCh(i) : i \in TimingIds}
                         \cup {OutCh(i) : i \in TimingIds} |-> NewChannel]
        /\ call = [i \in TimingIds |-> "idle"]
        /\ result = [i \in TimingIds |-> NotCalled]
        /\ driver = [program |-> Some(program), values |-> values,
                     runs |-> [i \in TimingIds |-> 0]]

\* input.send(v): the next of the values goes to copy i
TimedSend(i) ==
    /\ Len(chan[InCh(i)].sent) < Len(driver.values)
    /\ \E snd \in {ChanSend(chan[InCh(i)],
                            driver.values[Len(chan[InCh(i)].sent) + 1])} :
          /\ snd.ok
          /\ chan' = [chan EXCEPT ![InCh(i)] = snd.val]
    /\ UNCHANGED <<sims, call, result, driver>>

\* sim.run()?: one more call of run() on copy i, unless an earlier one failed
TimedRun(i) ==
    /\ Idle(i)
    /\ result[i].res \in {"None", "Ok"}
    /\ driver.runs[i] < MaxRuns
    /\ RunLoop(i, RunEnter(sims[i]), sims[i].state)
    /\ driver' = [driver EXCEPT !.runs[i] = @ + 1]

TimingNext ==
    \/ \E i \in TimingIds : TimedSend(i)
    \/ \E i \in TimingIds : TimedRun(i)
    \/ \E i \in TimingIds : RunIter(i)

TimingSpec == TimingInit /\ [][TimingNext]_vars

\* run() has returned Ok on copy i, and the copy has halted or has used up
\* every value sent to it
Settled(i) ==
    /\ call[i] = "idle"
    /\ result[i].of = "run" /\ result[i].res = "Ok"
    /\ sims[i].state = "Halted" \/ chan[InCh(i)].q = <<>>

\* what copy i has emitted and where it stands
Observed(i) ==
    [out |-> chan[OutCh(i)].sent,
     mem |-> sims[i].mem,
     pc |-> sims[i].pc,
     relative_base |-> sims[i].relative_base,
     state |-> sims[i].state,
     taken |-> Taken(chan[InCh(i)])]

\* C37: two copies of a non-blocking simulator that have been sent the same
\* values and have been run by the same number of calls of run() have, once
\* each has halted or used up those values, emitted the same values and hold
\* the same memory, pc and relative base (and state), however the sends were
\* timed relative to the calls.
C37_TimingDoesNotMatter ==
    (/\ Settled(0)
     /\ Settled(1)
     /\ chan[InCh(0)].sent = chan[InCh(1)].sent
     /\ driver.runs[0] = driver.runs[1]) => Observed(0) = Observed(1)

---------------------------------------------------------------------------
(* Claims about failing steps *)

\* C38: a step that fails with an error leaves the queue of the input
\* channel holding exactly the values it held before the step.
C38_FailedStepKeepsInput ==
    [][(/\ IsSome(sims[0].io.input_reader)
        /\ IsError(result'[0].res)
        /\ Executes(0)) =>
         InputOf(sims[0], chan').q = InputOf(sims[0], chan).q]_vars
\* the operands of the instruction at the pc whose mode digit is no mode
BadModes(s) ==
    IF ValidOpcode(s)
    THEN {i \in OperandsAt(s) : ModeDigit(MemAt(s.mem, s.pc), i) \notin {0, 1, 2}}
    ELSE {}

\* some operand before operand i resolves to a negative address
NegativeBefore(s, i) == \E j \in 0..(i - 1) : NegativeOperand(s, j)

====
